---- MODULE Spec2Model ----
(***************************************************************************)
(* Filename reconciliation of the BIDScoin converter plugins               *)
(* philips2bids.bidscoiner_plugin and custom_pancreas.bidscoiner_plugin:   *)
(* one acquisition is named, converted by the external converter, its      *)
(* cropped output replaces the uncropped one, and every output file that   *)
(* carries converter postfixes is renamed.                                 *)
(*                                                                         *)
(* File names are strings; TLC treats a string as the sequence of its      *)
(* characters (Len, SubSeq and \o apply), so the Python string operations  *)
(* of the source are modelled character by character.                      *)
(***************************************************************************)
EXTENDS Integers, Sequences, FiniteSets, TLC

(***************************************************************************)
(* Bounds of the model                                                     *)
(***************************************************************************)
\* the converter emits at most this many sibling images for one acquisition
MaxSiblings == 3
\* files of earlier runs in the output folder carry run indices 1..MaxPriorRun
MaxPriorRun == 2

(***************************************************************************)
(* Python str operations                                                   *)
(***************************************************************************)
\* the characters file names are made of, in code-point order (str comparison)
Alphabet == "-.0123456789<>ABCDEFGHIJKLMNOPQRSTUVWXYZ_abcdefghijklmnopqrstuvwxyz"

Digits == "0123456789"

Letters == "ABCDEFGHIJKLMNOPQRSTUVWXYZabcdefghijklmnopqrstuvwxyz"

\* the one element of a singleton set; The({ F(v) : v \in {e} }) computes F on the
\* value of e, so that e is evaluated once however often F uses it
The(S) == CHOOSE v \in S : TRUE

Char(s, i) == SubSeq(s, i, i)

\* the set of the characters of a string
CharSet(chars) == { Char(chars, i) : i \in 1..Len(chars) }

DigitSet == CharSet(Digits)

LetterSet == CharSet(Letters)

\* ord(c), as the position of c in the alphabet
OrdTable == [ c \in CharSet(Alphabet) |-> CHOOSE i \in 1..Len(Alphabet) : Char(Alphabet, i) = c ]

Ord(c) == OrdTable[c]

Min(S) == CHOOSE v \in S : \A w \in S : v <= w

Max(S) == CHOOSE v \in S : \A w \in S : v >= w

\* s[n:]
Drop(s, n) == SubSeq(s, n + 1, Len(s))

\* s[:n]
Take(s, n) == SubSeq(s, 1, n)

\* s.startswith(p)
StartsWith(s, p) == \E v \in {s} : \E w \in {p} : Len(w) <= Len(v) /\ Take(v, Len(w)) = w

\* s.endswith(p)
EndsWith(s, p) ==
    \E v \in {s} : \E w \in {p} : Len(w) <= Len(v) /\ Drop(v, Len(v) - Len(w)) = w

\* the positions at which sub occurs in s
Occurrences(s, sub) ==
    The({ { i \in 1..(Len(v) - k + 1) : SubSeq(v, i, i + k - 1) = w } :
          <<v, w, k>> \in { <<s, sub, Len(sub)>> } })

\* sub in s
Contains(s, sub) == Occurrences(s, sub) # {}

\* s.find(sub), counted from 1; 0 when sub does not occur
Find(s, sub) ==
    The({ IF occ = {} THEN 0 ELSE Min(occ) : occ \in { Occurrences(s, sub) } })

\* s.rfind(sub), counted from 1; 0 when sub does not occur
RFind(s, sub) ==
    The({ IF occ = {} THEN 0 ELSE Max(occ) : occ \in { Occurrences(s, sub) } })

\* s.replace(old, new): every non-overlapping occurrence, leftmost first
RECURSIVE Replace(_, _, _)
Replace(s, old, new) ==
    The({ IF i = 0 THEN v
          ELSE Take(v, i - 1) \o new \o Replace(Drop(v, i + Len(old) - 1), old, new) :
          <<v, i>> \in { <<w, IF old = "" THEN 0 ELSE Find(w, old)>> : w \in {s} } })

\* s.split(sep) as a sequence of strings
RECURSIVE Split(_, _)
Split(s, sep) ==
    The({ IF i = 0 THEN <<v>>
          ELSE <<Take(v, i - 1)>> \o Split(Drop(v, i + Len(sep) - 1), sep) :
          <<v, i>> \in { <<w, Find(w, sep)>> : w \in {s} } })

\* s.rsplit(sep, 1)[0]
RSplit1Head(s, sep) ==
    The({ IF i = 0 THEN v ELSE Take(v, i - 1) : <<v, i>> \in { <<w, RFind(w, sep)>> : w \in {s} } })

\* s.isalpha()
IsAlpha(s) == \E v \in {s} : Len(v) > 0 /\ \A i \in 1..Len(v) : Char(v, i) \in LetterSet

\* whether int(s) returns: s is a string of decimal digits
IsInt(s) == \E v \in {s} : Len(v) > 0 /\ \A i \in 1..Len(v) : Char(v, i) \in DigitSet

DigitVal(c) == (CHOOSE i \in 1..Len(Digits) : Char(Digits, i) = c) - 1

\* the number the first k digits of s write
RECURSIVE ParseDigits(_, _)
ParseDigits(s, k) ==
    IF k = 0 THEN 0 ELSE 10 * ParseDigits(s, k - 1) + DigitVal(Char(s, k))

\* int(s) of a string of decimal digits
ParseInt(s) == The({ ParseDigits(v, Len(v)) : v \in {s} })

\* str(n) of a natural number
RECURSIVE IntToStr(_)
IntToStr(n) ==
    The({ IF v < 10 THEN Char(Digits, v + 1)
          ELSE IntToStr(v \div 10) \o Char(Digits, (v % 10) + 1) : v \in {n} })

\* a[i:] < b[i:] in Python's str comparison
\* the positions at which both a and b have a character, and not the same one
Differences(a, b) == { i \in 1..Min({Len(a), Len(b)}) : Char(a, i) # Char(b, i) }

\* a < b in Python's str comparison: by the first character that differs, the
\* shorter string first when there is none
StrLess(a, b) ==
    \E v \in {a} : \E w \in {b} : \E d \in { Differences(v, w) } :
        IF d = {} THEN Len(v) < Len(w)
        ELSE Ord(Char(v, Min(d))) < Ord(Char(w, Min(d)))

\* sorted(S) of a set of strings
RECURSIVE Sorted(_)
Sorted(S) ==
    The({ IF T = {} THEN <<>>
          ELSE The({ <<m>> \o Sorted(T \ {m}) :
                     m \in { v \in T : \A w \in T \ {v} : StrLess(v, w) } }) :
          T \in {S} })

Range(q) == { q[i] : i \in 1..Len(q) }

(***************************************************************************)
(* pathlib operations on a file name                                       *)
(***************************************************************************)
\* PurePath.suffix: from the last dot, unless the name starts or ends there
Suffix(n) ==
    The({ IF i > 1 /\ i < Len(v) THEN Drop(v, i - 1) ELSE "" :
          <<v, i>> \in { <<w, RFind(w, ".")>> : w \in {n} } })

\* ''.join(PurePath.suffixes): from the first dot on
Suffixes(n) ==
    The({ IF i > 1 /\ ~EndsWith(v, ".") THEN Drop(v, i - 1) ELSE "" :
          <<v, i>> \in { <<w, Find(w, ".")>> : w \in {n} } })

\* PurePath.with_suffix(s)
WithSuffix(n, s) == The({ Take(v, Len(v) - Len(Suffix(v))) \o s : v \in {n} })

\* PurePath.with_suffix('').stem
StemOf(n) == WithSuffix(WithSuffix(n, ""), "")

\* PurePath.with_suffix('').with_suffix('.json')
JsonOf(n) == WithSuffix(WithSuffix(n, ""), ".json")

(***************************************************************************)
(* The entity table and the helpers of the bids module that work on names  *)
(***************************************************************************)
\* the entity keys in the order of the entity table
EntityKeys ==
    << "sub", "ses", "task", "acq", "ce", "trc", "rec", "dir", "vp", "run", "mod",
       "echo", "flip", "inv", "mt", "part", "recording", "proc", "space", "split",
       "res", "den", "label", "desc" >>

\* the suffixes of the first fmap group: bidsdatatypes['fmap'][0]['suffixes']
FmapSuffixes ==
    { "phasediff", "phase1", "phase2", "magnitude1", "magnitude2", "magnitude", "fieldmap" }

\* the characters of v from position i on that are letters or digits
RECURSIVE CleanupFrom(_, _)
CleanupFrom(v, i) ==
    IF i > Len(v) THEN ""
    ELSE (IF Char(v, i) \in LetterSet \cup DigitSet THEN Char(v, i) ELSE "")
         \o CleanupFrom(v, i + 1)

\* cleanup_value: only letters and digits survive in an entity value
CleanupValue(v) == The({ CleanupFrom(w, 1) : w \in {v} })

\* whether a bids value is <<dynamic>>
IsDynamic(v) == StartsWith(v, "<<") /\ EndsWith(v, ">>")

\* get_dynamicvalue at runtime: a <<dynamic>> value loses its brackets
DynamicValue(v) == IF IsDynamic(v) THEN SubSeq(v, 3, Len(v) - 2) ELSE v

\* the key-value segment of an entity key with a value, nothing without a value
KeyValSegment(k, v) ==
    The({ IF w # "" THEN "_" \o k \o "-" \o w ELSE "" : w \in { CleanupValue(DynamicValue(v)) } })

\* the segments of the keys from the i-th on, joined
RECURSIVE JoinSegments(_, _, _)
JoinSegments(vals, keys, i) ==
    IF i > Len(keys) THEN ""
    ELSE KeyValSegment(keys[i], vals[keys[i]]) \o JoinSegments(vals, keys, i + 1)

\* the key-value segments of the values vals, in the order of the entity table; a key
\* without a value gives no segment
KeyValSegments(vals) ==
    The({ JoinSegments(vals, keys, 1) :
          keys \in { SelectSeq(EntityKeys, LAMBDA k : k \in DOMAIN vals /\ vals[k] # "") } })

\* get_bidsname_custom(subid, sesid, run, runtime=True), without session
get_bidsname(sub, b) ==
    The({ sub \o KeyValSegments(vals) \o (IF vals.suffix # "" THEN "_" \o vals.suffix ELSE "") :
          vals \in {b} })

\* the segments of a file name, without its extensions
Segments(n) == Split(StemOf(n), "_")

\* the value of the key in the segments of a name, '' if none
SegmentValue(seg, key) ==
    The({ IF hit = {} THEN "" ELSE Drop(seg[Max(hit)], Len(key) + 1) :
          hit \in { { i \in 1..Len(seg) : StartsWith(seg[i], key \o "-") } } })

\* get_bidsvalue(bidsfile, bidskey): the value of the key in the name, '' if none
get_bidsvalue(n, key) == The({ SegmentValue(seg, key) : seg \in { Segments(n) } })

\* the segments of a name that are no key-value pair, joined: its (multiple) suffix
RECURSIVE SuffixSegments(_, _)
SuffixSegments(seg, i) ==
    IF i > Len(seg) THEN ""
    ELSE (IF Contains(seg[i], "-") THEN "" ELSE "_" \o seg[i]) \o SuffixSegments(seg, i + 1)

\* insert_bidskeyval(bidsfile, bidskey, newvalue): the name with the key set to the
\* value, its key-value pairs in entity order, its suffix segments and extension kept
insert_bidskeyval(n, key, newvalue) ==
    The({ Drop(KeyValSegments(vals), 1) \o SuffixSegments(seg, 1) \o ext :
          <<seg, vals, ext>> \in
             { << sg,
                  [ k \in Range(EntityKeys) |->
                      IF k = key THEN newvalue ELSE SegmentValue(sg, k) ],
                  Suffixes(n) >> : sg \in { Segments(n) } } })

\* get_bidsvalue(bidsfile, 'dummy', newvalue): a key that is no entity of the name
\* appends the value to the acquisition label
append_to_acq(n, newvalue) ==
    The({ insert_bidskeyval(v, "acq", get_bidsvalue(v, "acq") \o newvalue) : v \in {n} })

\* get_bidsvalue(bidsfile, 'run', newvalue): the name with its run index set
set_runindex(n, newvalue) == insert_bidskeyval(n, "run", newvalue)

\* whether outfolder.glob(bidsname + ext) finds a file, for ext '.*' and ext ''
GlobFinds(files, n, ext) ==
    IF ext = ".*"
    THEN \E f \in files : StartsWith(f.name, n \o ".")
    ELSE \E f \in files : f.name = n \o ext

\* increment_runindex that raises the run index once, not until no file matches
increment_runindex_Once(files, n, ext) ==
    The({ IF ~GlobFinds(files, v, ext) \/ runindex = "" THEN [hang |-> FALSE, name |-> v]
          ELSE [hang |-> FALSE, name |-> set_runindex(v, IntToStr(ParseInt(runindex) + 1))] :
          <<v, runindex>> \in { <<w, get_bidsvalue(w, "run")>> : w \in {n} } })

\* increment_runindex(outfolder, bidsname, ext): the run index of the name is raised
\* by one until no file of the folder matches; a name without run index that
\* matches a file is never changed, and the loop does not end (hang)
RECURSIVE increment_runindex(_, _, _)
increment_runindex(files, n, ext) ==
    The({ IF ~GlobFinds(files, v, ext) THEN [hang |-> FALSE, name |-> v]
          ELSE IF runindex = "" THEN [hang |-> TRUE, name |-> v]
          ELSE increment_runindex(files, set_runindex(v, IntToStr(ParseInt(runindex) + 1)), ext) :
          <<v, runindex>> \in { <<w, get_bidsvalue(w, "run")>> : w \in {n} } })

\* the value of a local variable that was not assigned yet
Unbound == "<unbound>"

\* get_bidsvalue(bidsfile, 'echo', newvalue): the name with its echo index set
set_echoindex(n, newvalue) == insert_bidskeyval(n, "echo", newvalue)

\* the echo-index loop of custom_pancreas: while a file of the folder matches the
\* name, the echo index of the name is read and, when the variable runindex is not
\* empty, raised by one; reading runindex raises when it is unbound, and with an
\* empty runindex the name never changes and the loop does not end (hang)
RECURSIVE increment_echoindex(_, _, _)
increment_echoindex(files, n, runidx) ==
    The({ IF ~GlobFinds(files, v, ".*") THEN [outcome |-> "ok", name |-> v]
          ELSE IF runidx = Unbound THEN [outcome |-> "UnboundLocalError", name |-> v]
          ELSE IF runidx = "" THEN [outcome |-> "hang", name |-> v]
          ELSE IF ~IsInt(echo) THEN [outcome |-> "ValueError", name |-> v]
          ELSE increment_echoindex(files, set_echoindex(v, IntToStr(ParseInt(echo) + 1)), runidx) :
          <<v, echo>> \in { <<w, get_bidsvalue(w, "echo")>> : w \in {n} } })

(***************************************************************************)
(* The output folder: a set of files, each a name and the data it holds    *)
(***************************************************************************)
File(n, d) == [name |-> n, data |-> d]

Names(files) == { f.name : f \in files }

\* Path.is_file()
IsFile(files, n) == n \in Names(files)

DataOf(files, n) == (CHOOSE f \in files : f.name = n).data

\* Path.unlink(missing_ok=True)
Unlink(files, n) == { f \in files : f.name # n }

\* Path.replace(target): the file gets the target's name, a file there is replaced
ReplaceFile(files, n, target) ==
    IF n = target THEN files
    ELSE { f \in files : f.name # n /\ f.name # target } \cup { File(target, DataOf(files, n)) }

(***************************************************************************)
(* The steps of bidscoiner_plugin for one acquisition                      *)
(***************************************************************************)
\* the extensions removed with an existing output of the same name
OutputExtensions == { ".nii.gz", ".nii", ".json", ".bval", ".bvec", ".tsv.gz" }

\* the postfixes the converter is known to append
dcm2niixpostfixes ==
    { "_c", "_i", "_Eq", "_real", "_imaginary", "_MoCo", "_t", "_Tilt", "_e", "_ph" }

LogEntry(level, what, path) == [level |-> level, what |-> what, path |-> path]

\* (outfolder/bidsname).with_suffix(ext)
OutputFile(n, ext) == WithSuffix(n, ext)

\* the files removed when the json file of the name exists already
DeleteExisting(files, n) ==
    IF IsFile(files, OutputFile(n, ".json"))
    THEN { f \in files : \A ext \in OutputExtensions : f.name # OutputFile(n, ext) }
    ELSE files

\* outfolder.glob(bidsname + '*_Crop_*')
CropFiles(files, n) ==
    { f.name : f \in { g \in files : StartsWith(g.name, n) /\ Contains(Drop(g.name, Len(n)), "_Crop_") } }

\* CropTarget that leaves the _Crop_ postfix in the name
CropTarget_KeepPostfix(n) == n

\* the name a cropped file replaces: the name without its _Crop_ postfix
CropTarget(n) ==
    The({ RSplit1Head(RSplit1Head(n, ext), "_Crop_") \o ext : ext \in { Suffixes(n) } })

\* the crop loop over the sorted cropped files
RECURSIVE CropLoop(_, _, _)
CropLoop(files, todo, i) ==
    IF i > Len(todo) THEN files
    ELSE The({ CropLoop(fs, todo, i + 1) :
               fs \in { ReplaceFile(files, todo[i], CropTarget(todo[i])) } })

\* outfolder.glob(f"{bidsname}*{dcm2niixpostfix}*.nii*")
PostfixGlob(fname, n, postfix) ==
    /\ StartsWith(fname, n)
    /\ LET rest == Drop(fname, Len(n))
       IN  \E i \in Occurrences(rest, postfix) :
              \E j \in Occurrences(rest, ".nii") : j >= i + Len(postfix)

\* sorted(set(...)) of the files one of the postfix globs finds
PostfixFiles(files, n) ==
    Sorted({ f.name : f \in { g \in files : \E pf \in dcm2niixpostfixes : PostfixGlob(g.name, n, pf) } })

\* str(dcm2niixfile).split(bidsname)[1].rsplit(ext)[0].split('_')[1:]
Postfixes(fname, n) ==
    Tail(Split(Split(Split(fname, n)[2], Suffixes(fname))[1], "_"))

\* EchoNr with the echo number 0, not 1, for a postfix without digits
EchoNr_DefaultZero(postfix) ==
    The({ IF echonr = "" THEN "0" ELSE echonr : echonr \in { Replace("_" \o postfix, "_e", "") } })

\* echonr = f"_{postfix}".replace('_e',''), '1' when that is empty
EchoNr(postfix) ==
    The({ IF echonr = "" THEN "1" ELSE echonr : echonr \in { Replace("_" \o postfix, "_e", "") } })

\* PartLabel with the label real, not imag, for the postfix imaginary
PartLabel_NoImag(postfix) == IF postfix = "ph" THEN "phase" ELSE "real"

\* the part label of a phase, real or imaginary postfix
PartLabel(postfix) ==
    IF postfix = "ph" THEN "phase" ELSE IF postfix = "real" THEN "real" ELSE "imag"

\* FieldmapSubstitutions that takes a phase image for a phasediff image whatever the
\* number of files
FieldmapSubstitutions_PhasediffAlways(nfiles) ==
    << <<"_magnitude1a",    "_magnitude2", TRUE>>,
       <<"_magnitude1_pha", "_phase2",     TRUE>>,
       <<"_magnitude1_e1",  "_magnitude1", TRUE>>,
       <<"_magnitude1_e2",  "_magnitude2", TRUE>>,
       <<"_magnitude2_e1",  "_magnitude1", TRUE>>,
       <<"_magnitude2_e2",  "_magnitude2", TRUE>>,
       <<"_magnitude1_ph",  "_phasediff",  TRUE      >>,
       <<"_magnitude2_ph",  "_phasediff",  TRUE      >>,
       <<"_phasediff_e1",   "_phasediff",  TRUE>>,
       <<"_phasediff_e2",   "_phasediff",  TRUE>>,
       <<"_phasediff_ph",   "_phasediff",  TRUE>>,
       <<"_magnitude1_ph",  "_phase1",     TRUE>>,
       <<"_magnitude2_ph",  "_phase2",     TRUE>>,
       <<"_phase1_e1",      "_phase1",     TRUE>>,
       <<"_phase1_e2",      "_phase2",     TRUE>>,
       <<"_phase2_e1",      "_phase1",     TRUE>>,
       <<"_phase2_e2",      "_phase2",     TRUE>>,
       <<"_phase1_ph",      "_phase1",     TRUE>>,
       <<"_phase2_ph",      "_phase2",     TRUE>>,
       <<"_magnitude_e1",   "_magnitude",  TRUE>>,
       <<"_fieldmap_e1",    "_magnitude",  nfiles = 2>>,
       <<"_fieldmap_e1",    "_fieldmap",   TRUE>>,
       <<"_magnitude_ph",   "_fieldmap",   TRUE>>,
       <<"_fieldmap_ph",    "_fieldmap",   TRUE>> >>

\* FieldmapSubstitutions with the phasediff case for two files only, not for three
FieldmapSubstitutions_TwoFilesOnly(nfiles) ==
    << <<"_magnitude1a",    "_magnitude2", TRUE>>,
       <<"_magnitude1_pha", "_phase2",     TRUE>>,
       <<"_magnitude1_e1",  "_magnitude1", TRUE>>,
       <<"_magnitude1_e2",  "_magnitude2", TRUE>>,
       <<"_magnitude2_e1",  "_magnitude1", TRUE>>,
       <<"_magnitude2_e2",  "_magnitude2", TRUE>>,
       <<"_magnitude1_ph",  "_phasediff",  nfiles = 2>>,
       <<"_magnitude2_ph",  "_phasediff",  nfiles = 2>>,
       <<"_phasediff_e1",   "_phasediff",  TRUE>>,
       <<"_phasediff_e2",   "_phasediff",  TRUE>>,
       <<"_phasediff_ph",   "_phasediff",  TRUE>>,
       <<"_magnitude1_ph",  "_phase1",     TRUE>>,
       <<"_magnitude2_ph",  "_phase2",     TRUE>>,
       <<"_phase1_e1",      "_phase1",     TRUE>>,
       <<"_phase1_e2",      "_phase2",     TRUE>>,
       <<"_phase2_e1",      "_phase1",     TRUE>>,
       <<"_phase2_e2",      "_phase2",     TRUE>>,
       <<"_phase1_ph",      "_phase1",     TRUE>>,
       <<"_phase2_ph",      "_phase2",     TRUE>>,
       <<"_magnitude_e1",   "_magnitude",  TRUE>>,
       <<"_fieldmap_e1",    "_magnitude",  nfiles = 2>>,
       <<"_fieldmap_e1",    "_fieldmap",   TRUE>>,
       <<"_magnitude_ph",   "_fieldmap",   TRUE>>,
       <<"_fieldmap_ph",    "_fieldmap",   TRUE>> >>

\* the substitutions of the fieldmap patch, in their order, applied when cond holds
FieldmapSubstitutions(nfiles) ==
    << <<"_magnitude1a",    "_magnitude2", TRUE>>,
       <<"_magnitude1_pha", "_phase2",     TRUE>>,
       <<"_magnitude1_e1",  "_magnitude1", TRUE>>,
       <<"_magnitude1_e2",  "_magnitude2", TRUE>>,
       <<"_magnitude2_e1",  "_magnitude1", TRUE>>,
       <<"_magnitude2_e2",  "_magnitude2", TRUE>>,
       <<"_magnitude1_ph",  "_phasediff",  nfiles \in {2, 3}>>,
       <<"_magnitude2_ph",  "_phasediff",  nfiles \in {2, 3}>>,
       <<"_phasediff_e1",   "_phasediff",  TRUE>>,
       <<"_phasediff_e2",   "_phasediff",  TRUE>>,
       <<"_phasediff_ph",   "_phasediff",  TRUE>>,
       <<"_magnitude1_ph",  "_phase1",     TRUE>>,
       <<"_magnitude2_ph",  "_phase2",     TRUE>>,
       <<"_phase1_e1",      "_phase1",     TRUE>>,
       <<"_phase1_e2",      "_phase2",     TRUE>>,
       <<"_phase2_e1",      "_phase1",     TRUE>>,
       <<"_phase2_e2",      "_phase2",     TRUE>>,
       <<"_phase1_ph",      "_phase1",     TRUE>>,
       <<"_phase2_ph",      "_phase2",     TRUE>>,
       <<"_magnitude_e1",   "_magnitude",  TRUE>>,
       <<"_fieldmap_e1",    "_magnitude",  nfiles = 2>>,
       <<"_fieldmap_e1",    "_fieldmap",   TRUE>>,
       <<"_magnitude_ph",   "_fieldmap",   TRUE>>,
       <<"_fieldmap_ph",    "_fieldmap",   TRUE>> >>

\* FieldmapChain that stops after the first substitution that changes the name
FieldmapChain_FirstOnly(n, nfiles, i) ==
    The({ IF todo = {} THEN v
          ELSE Replace(v, subs[Min(todo)][1], subs[Min(todo)][2]) :
          <<v, subs, todo>> \in
             { <<w, sb, { j \in i..Len(sb) : sb[j][3] /\ Contains(w, sb[j][1]) }>> :
               <<w, sb>> \in { <<n, FieldmapSubstitutions(nfiles)>> } } })

\* the fieldmap patch of a name: the substitutions from the i-th on, one after the
\* other; a substitution whose pattern is not in the name leaves the name as it is,
\* so the chain goes on from the first one that changes it
RECURSIVE FieldmapChain(_, _, _)
FieldmapChain(n, nfiles, i) ==
    The({ IF todo = {} THEN v
          ELSE FieldmapChain(Replace(v, subs[Min(todo)][1], subs[Min(todo)][2]),
                             nfiles, Min(todo) + 1) :
          <<v, subs, todo>> \in
             { <<w, sb, { j \in i..Len(sb) : sb[j][3] /\ Contains(w, sb[j][1]) }>> :
               <<w, sb>> \in { <<n, FieldmapSubstitutions(nfiles)>> } } })

\* newbidsname without the postfix, be it last or not
RemovePostfix(n, postfix) ==
    Replace(Replace(n, "_" \o postfix \o "_", "_"), "_" \o postfix \o ".", ".")

\* one pass of the postfix loop of philips2bids: the name after the postfix is
\* assigned to an entity, the suffix or the acq label and then removed, what is
\* logged, and whether int() raised
PatchPostfix(n, postfix, b, nfiles) ==
    IF "echo" \in DOMAIN b /\ StartsWith(postfix, "e")
    THEN IF IsAlpha(EchoNr(postfix))
         THEN [raised |-> FALSE, log |-> <<LogEntry("error", "unexpected postfix", postfix)>>,
               name |-> RemovePostfix(append_to_acq(n, postfix), postfix)]
         ELSE IF ~IsInt(EchoNr(postfix))
         THEN [raised |-> TRUE, log |-> <<>>, name |-> n]
         ELSE [raised |-> FALSE, log |-> <<>>,
               name |-> RemovePostfix(
                          insert_bidskeyval(n, "echo", IntToStr(ParseInt(EchoNr(postfix)))),
                          postfix)]
    ELSE IF "part" \in DOMAIN b /\ postfix \in {"ph", "real", "imaginary"}
    THEN [raised |-> FALSE, log |-> <<>>,
          name |-> RemovePostfix(insert_bidskeyval(n, "part", PartLabel(postfix)), postfix)]
    ELSE IF b.suffix \in FmapSuffixes
    THEN [raised |-> FALSE,
          log |-> IF nfiles \notin {1, 2, 3, 4}
                  THEN <<LogEntry("debug", "unknown fieldmap", postfix)>> ELSE <<>>,
          name |-> RemovePostfix(FieldmapChain(n, nfiles, 1), postfix)]
    ELSE [raised |-> FALSE, log |-> <<>>,
          name |-> RemovePostfix(append_to_acq(n, postfix), postfix)]

\* the postfix loop of philips2bids over the postfixes of one file
RECURSIVE PatchPostfixes(_, _, _, _, _)
PatchPostfixes(n, postfixes, i, b, nfiles) ==
    IF i > Len(postfixes) THEN [raised |-> FALSE, log |-> <<>>, name |-> n]
    ELSE The({ IF one.raised THEN one
               ELSE The({ [raised |-> rest.raised, log |-> one.log \o rest.log,
                           name |-> rest.name] :
                          rest \in { PatchPostfixes(one.name, postfixes, i + 1, b, nfiles) } }) :
               one \in { PatchPostfix(n, postfixes[i], b, nfiles) } })

\* one pass of the postfix loop of custom_pancreas
StripPostfix(n, postfix) ==
    Replace(Replace(Replace(n, postfix, ""), "__.", "."), "_.", ".")

\* the postfix loop of custom_pancreas over the postfixes of one file
RECURSIVE StripPostfixes(_, _, _)
StripPostfixes(n, postfixes, i) ==
    IF i > Len(postfixes) THEN n
    ELSE The({ StripPostfixes(v, postfixes, i + 1) : v \in { StripPostfix(n, postfixes[i]) } })

\* RenameEvents without the warning
RenameEvents_NoWarning(files, fname, target) ==
    <<LogEntry("op", IF IsFile(files, target) THEN "replace existing" ELSE "replace", target)>>

\* what the rename of a file to its new name logs and does, in that order
RenameEvents(files, fname, target) ==
    (IF IsFile(files, target)
     THEN <<LogEntry("warning", "overwriting existing", target)>> ELSE <<>>)
    \o <<LogEntry("op", IF IsFile(files, target) THEN "replace existing" ELSE "replace", target)>>

\* the files that share the stem of the renamed file get the new stem
RECURSIVE RenameAssociated(_, _, _)
RenameAssociated(files, todo, newjson) ==
    IF todo = {} THEN files
    ELSE The({ RenameAssociated(fs, todo \ {g}, newjson) :
               <<g, fs>> \in { <<h, ReplaceFile(files, h, WithSuffix(newjson, Suffixes(h)))>> :
                               h \in { The(todo) } } })

\* AssociatedFiles that finds the json file only
AssociatedFiles_JsonOnly(files, fname) ==
    { g \in Names(files) : g = JsonOf(fname) }

AssociatedFiles(files, fname) ==
    { g \in Names(files) : StartsWith(g, StemOf(fname) \o ".") }

\* the update of the list of json files after a rename
UpdateJsonfiles(jsons, files, oldjson, newjson) ==
    IF ~IsFile(files, oldjson) THEN jsons
    ELSE LET \* list.remove() drops the first occurrence only
             first == IF oldjson \in Range(jsons)
                      THEN Min({ i \in 1..Len(jsons) : jsons[i] = oldjson }) ELSE 0
             removed == IF first = 0 THEN jsons
                        ELSE Take(jsons, first - 1) \o Drop(jsons, first)
         IN  IF newjson \in Range(removed) THEN removed ELSE Append(removed, newjson)

(***************************************************************************)
(* json data: a function from keys to values                               *)
(***************************************************************************)
\* a json object without keys
EmptyJson == [ k \in {} |-> "" ]

\* jsondata[key] = value
SetKey(data, key, value) ==
    [ k \in DOMAIN data \cup { key } |-> IF k = key THEN value ELSE data[k] ]

\* del jsondata[key]
DelKey(data, key) == [ k \in DOMAIN data \ { key } |-> data[k] ]

\* the content of the json files, by the data each holds: none written yet
NoJsondata == [ d \in {} |-> EmptyJson ]

\* the converter call that fails
Failure == [ ok |-> FALSE, images |-> {} ]

(***************************************************************************)
(* The state                                                               *)
(***************************************************************************)
VARIABLES
    plugin,         \* the plugin that runs: "philips2bids" or "custom_pancreas"
    bids,           \* run['bids'] of the matched run: its entity keys and the suffix
    cropArg,        \* whether the converter arguments contain '-x y'
    folder,         \* the files of the output folder
    pc,             \* the position of the plugin in the processing of the acquisition
    bidsname,       \* the name composed for the acquisition
    jsonfiles,      \* the list of json files collected for the acquisition
    dcm2niixfiles,  \* the sorted list of files that carry a converter postfix
    idx,            \* the position of the rename loop in dcm2niixfiles
    log,            \* what was logged and which files were replaced, in order
    emitted,        \* history: the images the converter wrote for the acquisition
    renamed,        \* history: the renames of the postfix loop, in order
    runindex,       \* the local variable runindex: unbound before the first acquisition
    sources,        \* the sources of the session that follow the current one
    jsondata,       \* the content of the json files of the session
    scans_table,    \* the rows of the scans table: the path of an image and its acq_time
    scans_tsv,      \* the scans table as written to disk, if it was written
    processed,      \* history: the acquisitions of the session that ended, in order
    meta,           \* run['meta'] of the matched run
    output,         \* what the converter does with the current source
    python311       \* whether re refuses a flag that is not at the start of the pattern

\* the state of the session, over its acquisitions
sessionVars == << sources, jsondata, scans_table, scans_tsv, processed, meta, output, python311 >>

vars == << plugin, bids, cropArg, folder, pc, bidsname, jsonfiles, dcm2niixfiles, idx,
           log, emitted, renamed, runindex, sessionVars >>

subid == "sub-01"

\* the run index of a run item: static, or dynamic (<<1>>)
RunIndexValues == { "1", "<<1>>" }

\* a dynamic run index without a value
EmptyRunIndex == "<<>>"

\* the matched runs: fieldmaps (keys acq and run), a functional run (also echo and
\* part) and an anatomical run (also part, not echo)
FmapRuns == { [suffix |-> s, acq |-> "", run |-> r] : s \in FmapSuffixes, r \in RunIndexValues }

FuncRuns ==
    { [suffix |-> "bold", task |-> "rest", acq |-> "", run |-> r, echo |-> "", part |-> ""] :
        r \in RunIndexValues }

AnatRuns ==
    { [suffix |-> "T1w", acq |-> "hr", run |-> r, part |-> ""] :
        r \in RunIndexValues \cup { EmptyRunIndex } }

\* a multi-echo functional run with a dynamic echo index
EchoRuns ==
    { [suffix |-> "bold", task |-> "rest", acq |-> "", run |-> "<<1>>", echo |-> "<<1>>",
       part |-> ""] }

Runs(p) ==
    IF p = "philips2bids"
    THEN { b \in FmapRuns : b.suffix \in {"phasediff", "magnitude1", "magnitude2", "fieldmap"} }
         \cup FuncRuns \cup AnatRuns
    ELSE { b \in FmapRuns : b.suffix = "phasediff" } \cup AnatRuns \cup EchoRuns

\* the output of an earlier run of the same run item with run index r
PriorOutput(b, r) ==
    LET n == get_bidsname(subid, [b EXCEPT !.run = IntToStr(r)])
    IN  { File(n \o ".nii.gz", "prior"), File(n \o ".json", "prior") }

\* the output of an earlier run of a run item whose run index has no value
PriorOutputNoIndex(b) ==
    LET n == get_bidsname(subid, b)
    IN  { File(n \o ".nii.gz", "prior"), File(n \o ".json", "prior") }

PriorFolders(b) ==
    IF b.run = EmptyRunIndex THEN { {}, PriorOutputNoIndex(b) }
    ELSE { UNION { PriorOutput(b, r) : r \in P } : P \in SUBSET (1..MaxPriorRun) }

\* the postfixes the converter may give the images of an acquisition
PostfixPool(b, crop) ==
    IF b.suffix \in FmapSuffixes THEN { "", "_e1", "_e2", "_e2_ph", "_ph", "_c1" }
    ELSE IF b.suffix = "bold" THEN { "", "_e1", "_e2", "_e", "_e2a", "_c1" }
    ELSE { "", "_ph", "_real", "_c1" } \cup (IF crop THEN { "_Crop_1" } ELSE { "_imaginary" })

\* the postfixes of two echoes with a magnitude and a phase image each
EchoPhasePairs == { "_e1", "_e1_ph", "_e2", "_e2_ph" }

\* the sets of postfixes the converter may give the images of an acquisition: up to
\* MaxSiblings of the pool, or the two echoes with their phase images for a
\* magnitude1 run
SiblingSets(b, crop) ==
    { S \in SUBSET PostfixPool(b, crop) : Cardinality(S) \in 1..MaxSiblings }
    \cup (IF b.suffix = "magnitude1" THEN { EchoPhasePairs } ELSE {})

\* the image and the sidecar the converter writes for a postfix
ConverterOutput(n, postfix) ==
    { File(n \o postfix \o ".nii.gz", n \o postfix \o ".nii.gz"),
      File(n \o postfix \o ".json", n \o postfix \o ".json") }

Init ==
    /\ plugin \in { "philips2bids", "custom_pancreas" }
    /\ bids \in Runs(plugin)
    /\ cropArg \in (IF bids.suffix = "T1w" THEN BOOLEAN ELSE { FALSE })
    /\ folder \in PriorFolders(bids)
    /\ pc = "start"
    /\ bidsname = ""
    /\ jsonfiles = <<>>
    /\ dcm2niixfiles = <<>>
    /\ idx = 0
    /\ log = <<>>
    /\ emitted = {}
    /\ renamed = <<>>
    /\ runindex = Unbound
    /\ sources = <<>>
    /\ jsondata = NoJsondata
    /\ scans_table = {}
    /\ scans_tsv = <<>>
    /\ processed = <<>>
    /\ meta = EmptyJson
    /\ output = Failure
    /\ python311 = FALSE

(***************************************************************************)
(* The actions                                                             *)
(***************************************************************************)
\* the name of the acquisition is composed, in custom_pancreas its echo index
\* raised when it is dynamic, its run index raised when it is dynamic, and an
\* existing output of that name deleted
ComposeName ==
    /\ pc = "start"
    /\ LET candidate == get_bidsname(subid, bids)
           echoindex == IF "echo" \in DOMAIN bids THEN bids.echo ELSE ""
           echoed    == IF plugin = "custom_pancreas" /\ IsDynamic(echoindex)
                        THEN increment_echoindex(folder, candidate, runindex)
                        ELSE [outcome |-> "ok", name |-> candidate]
           run       == IF "run" \in DOMAIN bids THEN bids.run ELSE ""
           inc       == IF IsDynamic(run)
                        THEN increment_runindex(folder, echoed.name, ".*")
                        ELSE [hang |-> FALSE, name |-> echoed.name]
       IN  IF echoed.outcome = "hang"
           THEN /\ pc' = "hang"
                /\ UNCHANGED << bidsname, jsonfiles, folder, log, runindex >>
           ELSE IF echoed.outcome # "ok"
           THEN /\ pc' = "raised"
                /\ log' = Append(log, LogEntry("exception", echoed.outcome, candidate))
                /\ UNCHANGED << bidsname, jsonfiles, folder, runindex >>
           ELSE IF inc.hang
           THEN /\ pc' = "hang"
                /\ runindex' = run
                /\ UNCHANGED << bidsname, jsonfiles, folder, log >>
           ELSE /\ pc' = "composed"
                /\ runindex' = run
                /\ bidsname' = inc.name
                /\ jsonfiles' = << OutputFile(inc.name, ".json") >>
                /\ folder' = DeleteExisting(folder, inc.name)
                /\ log' = IF IsFile(folder, OutputFile(inc.name, ".json"))
                          THEN Append(log, LogEntry("warning", "already exists", inc.name))
                          ELSE log
    /\ UNCHANGED << plugin, bids, cropArg, dcm2niixfiles, idx, emitted, renamed, sessionVars >>

\* the converter fails: the acquisition is skipped
ConvertFails ==
    /\ pc = "composed"
    /\ pc' = "skipped"
    /\ UNCHANGED << plugin, bids, cropArg, folder, bidsname, jsonfiles, dcm2niixfiles, idx,
                    log, emitted, renamed, runindex, sessionVars >>

\* the converter writes the sibling images of the acquisition and their sidecars
Convert ==
    /\ pc = "composed"
    /\ \E S \in SiblingSets(bids, cropArg) :
          /\ folder' = folder \cup UNION { ConverterOutput(bidsname, pf) : pf \in S }
          /\ emitted' = { bidsname \o pf \o ".nii.gz" : pf \in S }
    /\ pc' = "converted"
    /\ UNCHANGED << plugin, bids, cropArg, bidsname, jsonfiles, dcm2niixfiles, idx, log, renamed,
                    runindex, sessionVars >>

\* the cropped output replaces the uncropped one
CropStep ==
    /\ pc = "converted"
    /\ LET todo == Sorted(CropFiles(folder, bidsname))
       IN  IF cropArg
           THEN /\ folder' = CropLoop(folder, todo, 1)
                /\ log' = log \o [ i \in 1..Len(todo) |-> LogEntry("info", "crop", todo[i]) ]
           ELSE UNCHANGED << folder, log >>
    /\ pc' = "cropped"
    /\ UNCHANGED << plugin, bids, cropArg, bidsname, jsonfiles, dcm2niixfiles, idx, emitted, renamed,
                    runindex, sessionVars >>

\* the files with a converter postfix are listed
SelectFiles ==
    /\ pc = "cropped"
    /\ LET found == PostfixFiles(folder, bidsname)
       IN  /\ dcm2niixfiles' = found
           /\ jsonfiles' = IF ~IsFile(folder, jsonfiles[1]) /\ found # <<>>
                           THEN Tail(jsonfiles) ELSE jsonfiles
           /\ pc' = IF found = <<>> THEN "renamed" ELSE "rename"
    /\ idx' = 1
    /\ UNCHANGED << plugin, bids, cropArg, folder, bidsname, log, emitted, renamed,
                    runindex, sessionVars >>

\* the rename of dcm2niixfile to newbidsname, with the files that share its stem
RenameTo(dcm2niixfile, newbidsname, postfixes, logged) ==
    LET moved   == ReplaceFile(folder, dcm2niixfile, newbidsname)
        oldjson == JsonOf(dcm2niixfile)
        newjson == JsonOf(newbidsname)
    IN  /\ folder' = RenameAssociated(moved, AssociatedFiles(moved, dcm2niixfile), newjson)
        /\ jsonfiles' = UpdateJsonfiles(jsonfiles, moved, oldjson, newjson)
        /\ log' = log \o logged \o RenameEvents(folder, dcm2niixfile, newbidsname)
                      \o (IF ~IsFile(moved, oldjson)
                          THEN <<LogEntry("warning", "not found", oldjson)>> ELSE <<>>)
        /\ renamed' = Append(renamed, [old |-> dcm2niixfile, new |-> newbidsname,
                                       postfixes |-> postfixes])
        /\ idx' = idx + 1
        /\ pc' = IF idx = Len(dcm2niixfiles) THEN "renamed" ELSE "rename"

\* one pass of the rename loop of philips2bids
RenamePhilips ==
    /\ pc = "rename"
    /\ plugin = "philips2bids"
    /\ LET dcm2niixfile == dcm2niixfiles[idx]
           postfixes    == Postfixes(dcm2niixfile, bidsname)
           patched      == PatchPostfixes(dcm2niixfile, postfixes, 1, bids, Len(dcm2niixfiles))
           inc          == IF IsDynamic(runindex)
                           THEN increment_runindex(folder, patched.name, "")
                           ELSE [hang |-> FALSE, name |-> patched.name]
       IN  IF patched.raised
           THEN /\ pc' = "raised"
                /\ log' = log \o patched.log
                             \o <<LogEntry("exception", "ValueError", dcm2niixfile)>>
                /\ UNCHANGED << folder, jsonfiles, renamed, idx >>
           ELSE IF ~inc.hang /\ ~IsFile(folder, dcm2niixfile)
           THEN /\ pc' = "raised"
                /\ log' = log \o patched.log
                             \o <<LogEntry("exception", "FileNotFoundError", dcm2niixfile)>>
                /\ UNCHANGED << folder, jsonfiles, renamed, idx >>
           ELSE IF inc.hang
           THEN /\ pc' = "hang"
                /\ log' = log \o patched.log
                /\ UNCHANGED << folder, jsonfiles, renamed, idx >>
           ELSE RenameTo(dcm2niixfile, inc.name, postfixes, patched.log)
    /\ UNCHANGED << plugin, bids, cropArg, bidsname, dcm2niixfiles, emitted, runindex, sessionVars >>

\* one pass of the rename loop of custom_pancreas
RenamePancreas ==
    /\ pc = "rename"
    /\ plugin = "custom_pancreas"
    /\ LET dcm2niixfile == dcm2niixfiles[idx]
           postfixes    == Postfixes(dcm2niixfile, bidsname)
       IN  IF ~IsFile(folder, dcm2niixfile)
           THEN /\ pc' = "raised"
                /\ log' = Append(log, LogEntry("exception", "FileNotFoundError", dcm2niixfile))
                /\ UNCHANGED << folder, jsonfiles, renamed, idx >>
           ELSE RenameTo(dcm2niixfile, StripPostfixes(dcm2niixfile, postfixes, 1), postfixes, <<>>)
    /\ UNCHANGED << plugin, bids, cropArg, bidsname, dcm2niixfiles, emitted, runindex, sessionVars >>

Next ==
    \/ ComposeName
    \/ ConvertFails
    \/ Convert
    \/ CropStep
    \/ SelectFiles
    \/ RenamePhilips
    \/ RenamePancreas

Spec == Init /\ [][Next]_vars

(***************************************************************************)
(* The session: the acquisition loop and the scans table                   *)
(***************************************************************************)
MaxSources == 2

\* the data type of the matched run, by its suffix
Datatype(b) ==
    IF b.suffix \in FmapSuffixes THEN "fmap"
    ELSE IF b.suffix \in { "bold", "cbv", "sbref" } THEN "func"
    ELSE IF b.suffix = "dwi" THEN "dwi"
    ELSE IF b.suffix = "pet" THEN "pet"
    ELSE "anat"

\* an image the converter writes: its postfix and extension, whether it comes with
\* a json sidecar and with the gradient tables (.bval, .bvec), and the content of
\* the sidecar
Image(postfix, ext, sidecar, json, gradients) ==
    [ postfix |-> postfix, ext |-> ext, sidecar |-> sidecar, json |-> json,
      gradients |-> gradients ]

\* the converter call that succeeds and writes these images
Success(images) == [ ok |-> TRUE, images |-> images ]

\* the data of a file the converter wrote for the acq-th acquisition of the session
DataId(acq, fname) == IntToStr(acq) \o ":" \o fname

\* the extensions of the files that come with an image
SidecarExtensions(im) ==
    (IF im.sidecar THEN { ".json" } ELSE {})
    \cup (IF im.gradients THEN { ".bval", ".bvec" } ELSE {})

\* the files the converter writes for an image
ImageFiles(acq, n, im) ==
    { File(n \o im.postfix \o ext, DataId(acq, n \o im.postfix \o ext)) :
        ext \in { im.ext } \cup SidecarExtensions(im) }

\* the content of the sidecars the converter writes
SidecarData(acq, n, images) ==
    [ d \in { DataId(acq, n \o im.postfix \o ".json") : im \in { i \in images : i.sidecar } } |->
        (CHOOSE im \in images : im.sidecar /\ d = DataId(acq, n \o im.postfix \o ".json")).json ]

\* RunConverter without the continue after a failed call: the acquisition goes on
RunConverter_NoContinue ==
    /\ pc = "composed"
    /\ pc' = "converted"
    /\ UNCHANGED << plugin, bids, cropArg, folder, bidsname, jsonfiles, dcm2niixfiles, idx, log,
                    emitted, renamed, runindex, sessionVars >>

\* the converter is run on the source: it fails and the acquisition is skipped, or
\* it writes the images of the source with their sidecars
RunConverter ==
    /\ pc = "composed"
    /\ IF ~output.ok
       THEN /\ pc' = "skipped"
            /\ UNCHANGED << folder, emitted, jsondata >>
       ELSE LET acq     == Len(processed) + 1
                written == UNION { ImageFiles(acq, bidsname, im) : im \in output.images }
                sidecar == SidecarData(acq, bidsname, output.images)
            IN  /\ pc' = "converted"
                /\ folder' = folder \cup written
                /\ emitted' = { DataId(acq, bidsname \o im.postfix \o im.ext) : im \in output.images }
                /\ jsondata' = [ d \in DOMAIN jsondata \cup DOMAIN sidecar |->
                                   IF d \in DOMAIN sidecar THEN sidecar[d] ELSE jsondata[d] ]
    /\ UNCHANGED << plugin, bids, cropArg, bidsname, jsonfiles, dcm2niixfiles, idx, log, renamed,
                    runindex, sources, scans_table, scans_tsv, processed, meta, output,
                    python311 >>

\* PatchJson that writes the meta data of the run alone
PatchJson_MetaOnly(data, b, m) ==
    [ k \in DOMAIN m |-> IF k # "IntendedFor" THEN DynamicValue(m[k]) ELSE m[k] ]

\* the content of a json file after the pass over the sidecars of the acquisition:
\* TaskName (func) or TracerName (pet) is added when it is missing, and every key
\* of run['meta'] is set
PatchJson(data, b, m) ==
    LET named == IF Datatype(b) = "func" /\ "TaskName" \notin DOMAIN data
                 THEN SetKey(data, "TaskName", b.task)
                 ELSE IF Datatype(b) = "pet" /\ "TracerName" \notin DOMAIN data
                 THEN SetKey(data, "TracerName", b.trc)
                 ELSE data
    IN  [ k \in DOMAIN named \cup DOMAIN m |->
            IF k \notin DOMAIN m THEN named[k]
            ELSE IF k # "IntendedFor" THEN DynamicValue(m[k]) ELSE m[k] ]

\* jsonfile.parent.glob(jsonfile.stem + '.*') with suffix .nii or .gz
OutputFilesOf(files, jsonfile) ==
    { g \in Names(files) :
        StartsWith(g, WithSuffix(jsonfile, "") \o ".") /\ Suffix(g) \in { ".nii", ".gz" } }

\* custom_pancreas: a dwi file without .bvec or .bval file gets a dummy one
DummyGradients(files, p, b, jsonfile) ==
    IF p = "custom_pancreas" /\ Datatype(b) = "dwi"
    THEN files \cup { File(WithSuffix(jsonfile, ext), "dummy") :
                       ext \in { e \in { ".bvec", ".bval" } : ~IsFile(files, WithSuffix(jsonfile, e)) } }
    ELSE files

\* the loop over sorted(set(jsonfiles)): each json file is opened, which raises when
\* it does not exist, patched and written, and the image found with it gets a row
\* in the scans table
RECURSIVE PatchLoop(_, _, _)
PatchLoop(todo, i, st) ==
    IF i > Len(todo) THEN st
    ELSE LET jsonfile == todo[i]
             files    == DummyGradients(st.folder, plugin, bids, jsonfile)
             found    == OutputFilesOf(files, jsonfile)
         IN  IF ~IsFile(files, jsonfile)
             THEN [ st EXCEPT !.raised = TRUE, !.folder = files,
                              !.log = Append(@, LogEntry("exception", "FileNotFoundError", jsonfile)) ]
             ELSE PatchLoop(todo, i + 1,
                    [ st EXCEPT
                        !.folder = files,
                        !.jsondata = [ @ EXCEPT ![DataOf(files, jsonfile)] = PatchJson(@, bids, meta) ],
                        !.scans = IF found = {} THEN @ ELSE @ \cup { CHOOSE g \in found : TRUE },
                        !.log = IF found = {}
                                THEN Append(@, LogEntry("error", "no data-file", jsonfile))
                                ELSE @ ])

\* the sidecars of the acquisition are patched and its images entered in the scans table
PatchSidecars ==
    /\ pc = "renamed"
    /\ LET st == PatchLoop(Sorted(Range(jsonfiles)), 1,
                           [ raised |-> FALSE, folder |-> folder, jsondata |-> jsondata,
                             scans |-> scans_table, log |-> log ])
       IN  /\ pc' = IF st.raised THEN "raised" ELSE "patched"
           /\ folder' = st.folder
           /\ jsondata' = st.jsondata
           /\ scans_table' = st.scans
           /\ log' = st.log
    /\ UNCHANGED << plugin, bids, cropArg, bidsname, jsonfiles, dcm2niixfiles, idx, emitted, renamed,
                    runindex, sources, scans_tsv, processed, meta, output, python311 >>

\* the acquisition as it ended: its name, how it ended, and the scans table, the
\* json data and the folder at its end
Ended ==
    [ name |-> bidsname, result |-> pc, renamed |-> renamed, scans |-> scans_table,
      jsondata |-> jsondata, folder |-> folder ]

\* the loop goes on with the next source
NextSource ==
    /\ pc \in { "patched", "skipped" }
    /\ sources # <<>>
    /\ processed' = Append(processed, Ended)
    /\ bids' = Head(sources).bids
    /\ meta' = Head(sources).meta
    /\ output' = Head(sources).output
    /\ sources' = Tail(sources)
    /\ pc' = "start"
    /\ bidsname' = ""
    /\ jsonfiles' = <<>>
    /\ dcm2niixfiles' = <<>>
    /\ idx' = 0
    /\ emitted' = {}
    /\ renamed' = <<>>
    /\ UNCHANGED << plugin, cropArg, folder, log, runindex, jsondata, scans_table, scans_tsv,
                    python311 >>

\* after the last source the scans table is written to disk
WriteScans ==
    /\ pc \in { "patched", "skipped" }
    /\ sources = <<>>
    /\ processed' = Append(processed, Ended)
    /\ scans_tsv' = << scans_table >>
    /\ pc' = "written"
    /\ UNCHANGED << plugin, bids, cropArg, folder, bidsname, jsonfiles, dcm2niixfiles, idx, log,
                    emitted, renamed, runindex, sources, jsondata, scans_table, meta, output,
                    python311 >>

\* json null, as json text
Null == "null"

\* a json list of strings, as json text
RECURSIVE JoinList(_, _)
JoinList(q, i) ==
    IF i > Len(q) THEN ""
    ELSE (IF i > 1 THEN "," ELSE "") \o q[i] \o JoinList(q, i + 1)

JsonList(q) == "[" \o JoinList(q, 1) \o "]"

IsJsonList(v) == StartsWith(v, "[")

\* the sidecars a session pass visits: sorted(glob('sub-*.json'))
SessionSidecars(files) ==
    Sorted({ g \in Names(files) : StartsWith(g, "sub-") /\ EndsWith(g, ".json") })

\* re.search(r'.*(?i)(AP|PA).*', description).groups()[0]: the last AP or PA of the
\* description in any case, as it is written there; 'no match' without one
FindPhaseEncoding(description) ==
    The({ IF hits = {} THEN "no match" ELSE SubSeq(v, Max(hits), Max(hits) + 1) :
          <<v, hits>> \in { <<w, { i \in 1..(Len(w) - 1) :
                                     SubSeq(w, i, i + 1) \in { "AP", "Ap", "aP", "ap",
                                                               "PA", "Pa", "pA", "pa" } }>> :
                             w \in { description } } })

\* the Estimated* fields are moved to EffectiveEchoSpacing and TotalReadoutTime
MoveEstimated(data) ==
    LET spacing == IF "EstimatedEffectiveEchoSpacing" \in DOMAIN data
                   THEN DelKey(SetKey(data, "EffectiveEchoSpacing",
                                      data["EstimatedEffectiveEchoSpacing"]),
                               "EstimatedEffectiveEchoSpacing")
                   ELSE data
    IN  IF "EstimatedTotalReadoutTime" \in DOMAIN spacing
        THEN DelKey(SetKey(spacing, "TotalReadoutTime", spacing["EstimatedTotalReadoutTime"]),
                    "EstimatedTotalReadoutTime")
        ELSE spacing

\* philips2bids: the Estimated* fields are moved and PhaseEncodingDirection is set
\* from SeriesDescription; the pattern has its flag (?i) not at its start, which
\* re.search refuses with re.error from Python 3.11 on (flagsError)
PhilipsFields(data, flagsError) ==
    LET moved == MoveEstimated(data)
    IN  IF "SeriesDescription" \notin DOMAIN moved THEN [ raised |-> "", data |-> moved ]
        ELSE IF flagsError THEN [ raised |-> "re.error", data |-> data ]
        ELSE [ raised |-> "",
               data |-> SetKey(moved, "PhaseEncodingDirection",
                               FindPhaseEncoding(moved["SeriesDescription"])) ]

\* the patterns of an IntendedFor string: <<a><b>> gives a and b
Selectors(intendedfor) ==
    IF StartsWith(intendedfor, "<") /\ EndsWith(intendedfor, ">")
    THEN Split(SubSeq(intendedfor, 3, Len(intendedfor) - 2), "><")
    ELSE << intendedfor >>

\* sorted(bidsses.rglob(f"*{selector}*.nii*")), relative to the subject folder
RECURSIVE Prefixed(_, _, _)
Prefixed(dir, q, i) ==
    IF i > Len(q) THEN <<>> ELSE << dir \o "/" \o q[i] >> \o Prefixed(dir, q, i + 1)

FoundImages(files, dir, selector) ==
    IF selector = "" THEN <<>>
    ELSE Prefixed(dir,
                  Sorted({ g \in Names(files) :
                             \E i \in Occurrences(g, selector) :
                                \E j \in Occurrences(g, ".nii") : j >= i + Len(selector) }),
                  1)

RECURSIVE AllFoundImages(_, _, _, _)
AllFoundImages(files, dir, selectors, i) ==
    IF i > Len(selectors) THEN <<>>
    ELSE FoundImages(files, dir, selectors[i]) \o AllFoundImages(files, dir, selectors, i + 1)

\* the IntendedFor of a fieldmap sidecar is replaced by the images found with its
\* patterns, '' when none is found; a value that is a list has no startswith
SearchIntendedFor(files, dir, data, jsonfile) ==
    LET intendedfor == IF "IntendedFor" \in DOMAIN data THEN data["IntendedFor"] ELSE ""
    IN  IF intendedfor \in { "", Null }
        THEN [ raised |-> "", data |-> data,
               log |-> << LogEntry("warning", "empty IntendedFor", jsonfile) >> ]
        ELSE IF IsJsonList(intendedfor)
        THEN [ raised |-> "AttributeError", data |-> data, log |-> <<>> ]
        ELSE LET niifiles == AllFoundImages(files, dir, Selectors(intendedfor), 1)
             IN  IF niifiles # <<>>
                 THEN [ raised |-> "", data |-> SetKey(data, "IntendedFor", JsonList(niifiles)),
                        log |-> <<>> ]
                 ELSE [ raised |-> "", data |-> SetKey(data, "IntendedFor", ""),
                        log |-> << LogEntry("warning", "empty IntendedFor", jsonfile) >> ]

\* the echo time of the n-th magnitude sidecar of a phasediff sidecar: null when the
\* file is missing, KeyError when it has no EchoTime
MagnitudeEchoTime(files, contents, jsonfile, n) ==
    LET magnitude == Replace(jsonfile, "_phasediff", "_magnitude" \o IntToStr(n))
    IN  IF ~IsFile(files, magnitude) THEN [ raised |-> "", echotime |-> Null, missing |-> TRUE ]
        ELSE IF "EchoTime" \notin DOMAIN contents[DataOf(files, magnitude)]
        THEN [ raised |-> "KeyError", echotime |-> Null, missing |-> FALSE ]
        ELSE [ raised |-> "", echotime |-> contents[DataOf(files, magnitude)]["EchoTime"],
               missing |-> FALSE ]

\* a phasediff sidecar gets EchoTime1 and EchoTime2 from its magnitude sidecars, null
\* when one is missing or when EchoTime1 > EchoTime2
AddEchoTimes(files, contents, data, jsonfile) ==
    IF ~EndsWith(jsonfile, "phasediff.json") THEN [ raised |-> "", data |-> data, log |-> <<>> ]
    ELSE LET first  == MagnitudeEchoTime(files, contents, jsonfile, 1)
             second == IF first.raised # "" THEN first
                       ELSE MagnitudeEchoTime(files, contents, jsonfile, 2)
             missed == (IF first.missing
                        THEN << LogEntry("error", "magnitude1 not found", jsonfile) >> ELSE <<>>)
                       \o (IF second.missing
                           THEN << LogEntry("error", "magnitude2 not found", jsonfile) >> ELSE <<>>)
             nulled == SetKey(SetKey(data, "EchoTime1", Null), "EchoTime2", Null)
         IN  IF first.raised # "" THEN [ raised |-> first.raised, data |-> data, log |-> missed ]
             ELSE IF second.raised # ""
             THEN [ raised |-> second.raised, data |-> data, log |-> missed ]
             ELSE IF Null \in { first.echotime, second.echotime }
             THEN [ raised |-> "", data |-> nulled,
                    log |-> Append(missed, LogEntry("error", "no valid EchoTime", jsonfile)) ]
             ELSE IF ParseInt(first.echotime) > ParseInt(second.echotime)
             THEN [ raised |-> "", data |-> nulled,
                    log |-> Append(missed, LogEntry("error", "invalid EchoTime", jsonfile)) ]
             ELSE [ raised |-> "",
                    data |-> SetKey(SetKey(data, "EchoTime1", first.echotime),
                                    "EchoTime2", second.echotime),
                    log |-> missed ]

\* the pass over the fieldmap sidecars of the session: each is loaded, patched and
\* saved; an exception ends the pass with the sidecars before it saved
RECURSIVE FmapLoop(_, _, _, _)
FmapLoop(todo, i, flagsError, st) ==
    IF i > Len(todo) THEN st
    ELSE LET jsonfile == todo[i]
             data     == st.jsondata[DataOf(folder, jsonfile)]
             fields   == IF plugin = "philips2bids" THEN PhilipsFields(data, flagsError)
                         ELSE [ raised |-> "", data |-> data ]
             intended == SearchIntendedFor(folder, "fmap", fields.data, jsonfile)
             echoes   == AddEchoTimes(folder, st.jsondata, intended.data, jsonfile)
         IN  IF fields.raised # ""
             THEN [ st EXCEPT !.raised = TRUE,
                              !.log = Append(@, LogEntry("exception", fields.raised, jsonfile)) ]
             ELSE IF intended.raised # ""
             THEN [ st EXCEPT !.raised = TRUE,
                              !.log = Append(@, LogEntry("exception", intended.raised, jsonfile)) ]
             ELSE IF echoes.raised # ""
             THEN [ st EXCEPT !.raised = TRUE,
                              !.log = Append(@ \o intended.log \o echoes.log,
                                             LogEntry("exception", echoes.raised, jsonfile)) ]
             ELSE FmapLoop(todo, i + 1, flagsError,
                    [ st EXCEPT !.jsondata = [ @ EXCEPT ![DataOf(folder, jsonfile)] = echoes.data ],
                                !.log = @ \o intended.log \o echoes.log ])

\* the data type of the sources of the session
SessionDatatype == Datatype(bids)

\* after the scans table the fieldmap sidecars of the session are patched
FmapPass ==
    /\ pc = "written"
    /\ \E flagsError \in { python311 } :
          LET st == FmapLoop(IF SessionDatatype = "fmap" THEN SessionSidecars(folder) ELSE <<>>,
                             1, flagsError,
                             [ raised |-> FALSE, jsondata |-> jsondata, log |-> log ])
          IN  /\ pc' = IF st.raised THEN "pass raised" ELSE "fmap patched"
              /\ jsondata' = st.jsondata
              /\ log' = st.log
    /\ UNCHANGED << plugin, bids, cropArg, folder, bidsname, jsonfiles, dcm2niixfiles, idx,
                    emitted, renamed, runindex, sources, scans_table, scans_tsv, processed,
                    meta, output, python311 >>

\* the pass of philips2bids over the functional sidecars of the session
RECURSIVE FuncLoop(_, _, _, _)
FuncLoop(todo, i, flagsError, st) ==
    IF i > Len(todo) THEN st
    ELSE LET jsonfile == todo[i]
             fields   == PhilipsFields(st.jsondata[DataOf(folder, jsonfile)], flagsError)
         IN  IF fields.raised # ""
             THEN [ st EXCEPT !.raised = TRUE,
                              !.log = Append(@, LogEntry("exception", fields.raised, jsonfile)) ]
             ELSE FuncLoop(todo, i + 1, flagsError,
                    [ st EXCEPT !.jsondata = [ @ EXCEPT ![DataOf(folder, jsonfile)] = fields.data ] ])

\* after the fieldmap pass philips2bids patches the functional sidecars of the
\* session; custom_pancreas has no such pass
FuncPass ==
    /\ pc = "fmap patched"
    /\ \E flagsError \in { python311 } :
          LET st == FuncLoop(IF plugin = "philips2bids" /\ SessionDatatype = "func"
                             THEN SessionSidecars(folder) ELSE <<>>,
                             1, flagsError,
                             [ raised |-> FALSE, jsondata |-> jsondata, log |-> log ])
          IN  /\ pc' = IF st.raised THEN "pass raised" ELSE "done"
              /\ jsondata' = st.jsondata
              /\ log' = st.log
    /\ UNCHANGED << plugin, bids, cropArg, folder, bidsname, jsonfiles, dcm2niixfiles, idx,
                    emitted, renamed, runindex, sources, scans_table, scans_tsv, processed,
                    meta, output, python311 >>

\* the sidecar the converter writes with an image
ConverterJson == [ EchoTime |-> "1", RepetitionTime |-> "2" ]

\* a functional run with a dynamic run index
BoldRun ==
    [ suffix |-> "bold", task |-> "rest", acq |-> "", run |-> "<<1>>", echo |-> "", part |-> "" ]

\* what the converter may do with a source of the acquisition loop: fail, write one
\* image with or without its sidecar, write two echoes of which the second has no
\* sidecar, or write an echo with a postfix that is no number
LoopOutputs ==
    { Failure,
      Success({ Image("", ".nii.gz", TRUE, ConverterJson, FALSE) }),
      Success({ Image("", ".nii.gz", FALSE, EmptyJson, FALSE) }),
      Success({ Image("_e1", ".nii.gz", TRUE, ConverterJson, FALSE),
                Image("_e2", ".nii.gz", FALSE, EmptyJson, FALSE) }),
      Success({ Image("_e1", ".nii.gz", TRUE, ConverterJson, FALSE),
                Image("_e2a", ".nii.gz", TRUE, ConverterJson, FALSE) }) }

LoopSources == { [ bids |-> BoldRun, meta |-> EmptyJson, output |-> o ] : o \in LoopOutputs }

\* a diffusion run
DwiRun == [ suffix |-> "dwi", acq |-> "", run |-> "1" ]

\* what the converter may write for a diffusion source: images .nii.gz or .nii with
\* their sidecar and with or without the gradient tables
DwiOutputs ==
    { Success({ Image("_c1", ".nii.gz", TRUE, ConverterJson, TRUE) }),
      Success({ Image("_c1", ".nii", TRUE, ConverterJson, TRUE),
                Image("_c2", ".nii", TRUE, ConverterJson, FALSE) }),
      Success({ Image("", ".nii.gz", TRUE, ConverterJson, TRUE),
                Image("_ph", ".nii.gz", FALSE, EmptyJson, TRUE) }) }

DwiSources == { [ bids |-> DwiRun, meta |-> EmptyJson, output |-> o ] : o \in DwiOutputs }

\* the sidecar the converter writes with a Philips image: the series description
\* and the estimated fields
PhilipsJson(echotime, description) ==
    [ EchoTime |-> echotime, RepetitionTime |-> "2", SeriesDescription |-> description,
      EstimatedEffectiveEchoSpacing |-> "4", EstimatedTotalReadoutTime |-> "5" ]

\* a functional source whose run item has meta data, of a key the converter writes,
\* of a key it does not write, and of IntendedFor
MetaSources ==
    { [ bids |-> BoldRun,
        meta |-> [ RepetitionTime |-> "3", Instructions |-> "<<rest>>", IntendedFor |-> "bold" ],
        output |-> Success({ Image("", ".nii.gz", TRUE, json, FALSE) }) ] :
        json \in { ConverterJson, PhilipsJson("1", "bold_pa_AP"), PhilipsJson("1", "bold") } }

\* the magnitude images of a fieldmap: two echoes, in either order of their echo
\* times, the second with or without EchoTime in its sidecar, one echo only, or one
\* image without a postfix
MagnitudeSources ==
    { [ bids |-> [ suffix |-> "magnitude1", acq |-> "", run |-> "1" ], meta |-> EmptyJson,
        output |-> o ] :
        o \in { Success({ Image("_e1", ".nii.gz", TRUE, PhilipsJson("1", "fmap"), FALSE),
                          Image("_e2", ".nii.gz", TRUE, PhilipsJson("2", "fmap"), FALSE) }),
                Success({ Image("_e1", ".nii.gz", TRUE, PhilipsJson("2", "fmap"), FALSE),
                          Image("_e2", ".nii.gz", TRUE, PhilipsJson("1", "fmap"), FALSE) }),
                Success({ Image("_e1", ".nii.gz", TRUE, PhilipsJson("1", "fmap"), FALSE),
                          Image("_e2", ".nii.gz", TRUE, [ RepetitionTime |-> "2" ], FALSE) }),
                Success({ Image("_e1", ".nii.gz", TRUE, PhilipsJson("1", "fmap"), FALSE) }),
                Success({ Image("", ".nii.gz", TRUE, ConverterJson, FALSE) }) } }

\* the phase difference image of a fieldmap, with the postfix of a phase image or
\* without a postfix, its IntendedFor empty, a string of one or two patterns, or a
\* list an earlier pass has written
PhasediffSources ==
    { [ bids |-> [ suffix |-> "phasediff", acq |-> "", run |-> "1" ], meta |-> m,
        output |-> Success({ Image("_e2_ph", ".nii.gz", TRUE, json, FALSE) }) ] :
        m \in { EmptyJson,
                [ IntendedFor |-> "magnitude" ],
                [ IntendedFor |-> "<<bold><phasediff>>", RepetitionTime |-> "3" ],
                [ IntendedFor |-> "bold" ],
                [ IntendedFor |-> JsonList(<< "fmap/sub-01_run-1_magnitude1.nii.gz" >>) ] },
        json \in { ConverterJson, PhilipsJson("2", "fmap_AP") } }
    \cup { [ bids |-> [ suffix |-> "phasediff", acq |-> "", run |-> "1" ], meta |-> m,
              output |-> Success({ Image("", ".nii.gz", TRUE, ConverterJson, FALSE) }) ] :
              m \in { EmptyJson, [ IntendedFor |-> "magnitude" ] } }

\* a functional source for which the converter reports success and writes no file
EmptySources == { [ bids |-> BoldRun, meta |-> EmptyJson, output |-> Success({}) ] }

\* a run item with a static run index that matches two sources of the session: the
\* converter writes an image for the first and fails for the second
RepeatedSession ==
    << [ bids |-> [ BoldRun EXCEPT !.run = "1" ], meta |-> EmptyJson,
         output |-> Success({ Image("", ".nii.gz", TRUE, ConverterJson, FALSE) }) ],
       [ bids |-> [ BoldRun EXCEPT !.run = "1" ], meta |-> EmptyJson, output |-> Failure ] >>

\* the sessions: up to MaxSources sources of the functional run, one diffusion
\* source, one functional source with meta data or without output, the sources of a
\* fieldmap, or two sources of a run item with a static run index
Sessions ==
    UNION { [ 1..n -> LoopSources ] : n \in 1..MaxSources }
    \cup { << src >> : src \in DwiSources \cup MetaSources \cup EmptySources \cup PhasediffSources }
    \cup { RepeatedSession }
    \cup { << m, p >> : m \in MagnitudeSources, p \in PhasediffSources }

SessionInit ==
    /\ plugin \in { "philips2bids", "custom_pancreas" }
    /\ \E session \in Sessions :
          /\ bids = session[1].bids
          /\ meta = session[1].meta
          /\ output = session[1].output
          /\ sources = Tail(session)
    /\ cropArg = FALSE
    /\ folder = {}
    /\ pc = "start"
    /\ bidsname = ""
    /\ jsonfiles = <<>>
    /\ dcm2niixfiles = <<>>
    /\ idx = 0
    /\ log = <<>>
    /\ emitted = {}
    /\ renamed = <<>>
    /\ runindex = Unbound
    /\ jsondata = NoJsondata
    /\ scans_table = {}
    /\ scans_tsv = <<>>
    /\ processed = <<>>
    /\ python311 \in BOOLEAN

SessionNext ==
    \/ ComposeName
    \/ RunConverter
    \/ CropStep
    \/ SelectFiles
    \/ RenamePhilips
    \/ RenamePancreas
    \/ PatchSidecars
    \/ NextSource
    \/ WriteScans
    \/ FmapPass
    \/ FuncPass

SessionSpec == SessionInit /\ [][SessionNext]_vars

(***************************************************************************)
(* postfixPHILIPS: the pass over the sidecars of an existing session       *)
(***************************************************************************)
\* what postfixPHILIPS leaves in an Estimated* field whose value it has copied
GeneratedBy == "GeneratedBy: dcm2niix + bidscoin"

\* the hard coded slice timing of an image of 69 and of 66 slices, as json text
SliceTiming69 == "[0.000,0.065,0.130,...]"

SliceTiming66 == "[0.000,0.068,0.136,...]"

\* an image file of the session holds its number of slices
NiftiData(nrslices) == "nifti " \o IntToStr(nrslices)

\* nii_img.header.get_n_slices()
NrSlices(data) == ParseInt(Drop(data, Len("nifti ")))

\* postfixPHILIPS: the Estimated* fields are copied and marked as generated; a
\* sidecar without PhaseEncodingDirection and with a SeriesDescription gets 'j' when
\* the description has no AP or PA, and nothing when it has one
PostfixFields(data, flagsError, jsonfile) ==
    LET spacing == IF "EstimatedEffectiveEchoSpacing" \in DOMAIN data
                   THEN SetKey(SetKey(data, "EffectiveEchoSpacing",
                                      data["EstimatedEffectiveEchoSpacing"]),
                               "EstimatedEffectiveEchoSpacing", GeneratedBy)
                   ELSE data
        readout == IF "EstimatedTotalReadoutTime" \in DOMAIN spacing
                   THEN SetKey(SetKey(spacing, "TotalReadoutTime",
                                      spacing["EstimatedTotalReadoutTime"]),
                               "EstimatedTotalReadoutTime", GeneratedBy)
                   ELSE spacing
    IN  IF "PhaseEncodingDirection" \in DOMAIN readout \/ "SeriesDescription" \notin DOMAIN readout
        THEN [ raised |-> "", data |-> readout, log |-> <<>> ]
        ELSE IF flagsError THEN [ raised |-> "re.error", data |-> data, log |-> <<>> ]
        ELSE IF FindPhaseEncoding(readout["SeriesDescription"]) # "no match"
        THEN [ raised |-> "", data |-> readout,
               log |-> << LogEntry("warning", "found_phase_encoding", jsonfile) >> ]
        ELSE [ raised |-> "", data |-> SetKey(readout, "PhaseEncodingDirection", "j"),
               log |-> << LogEntry("warning", "Assumed PhaseEncodingDirection", jsonfile) >> ]

\* postfixPHILIPS, func sidecars: a sidecar without SliceTiming gets the hard coded
\* one of 69 or 66 slices. The slice count is read from the image with the name of
\* the sidecar, .nii before .nii.gz; without such an image nii_img is what the loop
\* loaded last, or unbound. Any other slice count pops the key that is not there
AddSliceTiming(files, data, jsonfile, loaded) ==
    IF "SliceTiming" \in DOMAIN data
    THEN [ raised |-> "", data |-> data, nii_img |-> loaded, log |-> <<>> ]
    ELSE LET niifile    == WithSuffix(jsonfile, ".nii")
             niifile_gz == WithSuffix(jsonfile, ".nii.gz")
             nii_img    == IF IsFile(files, niifile) THEN DataOf(files, niifile)
                           ELSE IF IsFile(files, niifile_gz) THEN DataOf(files, niifile_gz)
                           ELSE loaded
             notfound   == IF IsFile(files, niifile) \/ IsFile(files, niifile_gz) THEN <<>>
                           ELSE << LogEntry("warning", "NIFTI not found", niifile) >>
         IN  IF nii_img = Unbound
             THEN [ raised |-> "UnboundLocalError", data |-> data, nii_img |-> nii_img,
                    log |-> notfound ]
             ELSE IF NrSlices(nii_img) = 69
             THEN [ raised |-> "", data |-> SetKey(data, "SliceTiming", SliceTiming69),
                    nii_img |-> nii_img,
                    log |-> Append(notfound, LogEntry("warning", "nrslices", jsonfile)) ]
             ELSE IF NrSlices(nii_img) = 66
             THEN [ raised |-> "", data |-> SetKey(data, "SliceTiming", SliceTiming66),
                    nii_img |-> nii_img,
                    log |-> Append(notfound, LogEntry("warning", "nrslices", jsonfile)) ]
             ELSE [ raised |-> "KeyError", data |-> data, nii_img |-> nii_img,
                    log |-> notfound \o << LogEntry("warning", "nrslices", jsonfile),
                                           LogEntry("warning", "cannot determine SliceTiming",
                                                    niifile) >> ]

\* postfixPHILIPS, func sidecars: a sidecar without TaskName gets UNKNOWN
AddTaskName(data, jsonfile) ==
    IF "TaskName" \in DOMAIN data THEN [ data |-> data, log |-> <<>> ]
    ELSE [ data |-> SetKey(data, "TaskName", "UNKNOWN"),
           log |-> << LogEntry("warning", "Empty TaskName", jsonfile) >> ]

\* the loop of postfixPHILIPS over the sidecars of a folder of the session: each is
\* loaded, patched and saved; an exception ends the pass with the sidecars before it
\* saved
RECURSIVE PostfixLoop(_, _, _, _)
PostfixLoop(todo, i, mod_dir, st) ==
    IF i > Len(todo) THEN st
    ELSE LET jsonfile == todo[i]
             fields   == PostfixFields(st.jsondata[DataOf(folder, jsonfile)], python311, jsonfile)
             timing   == IF mod_dir = "func"
                         THEN AddSliceTiming(folder, fields.data, jsonfile, st.nii_img)
                         ELSE [ raised |-> "", data |-> fields.data, nii_img |-> st.nii_img,
                                log |-> <<>> ]
             named    == IF mod_dir = "func" THEN AddTaskName(timing.data, jsonfile)
                         ELSE [ data |-> timing.data, log |-> <<>> ]
         IN  IF fields.raised # ""
             THEN [ st EXCEPT !.raised = TRUE,
                              !.log = Append(@, LogEntry("exception", fields.raised, jsonfile)) ]
             ELSE IF timing.raised # ""
             THEN [ st EXCEPT !.raised = TRUE,
                              !.log = Append(@ \o fields.log \o timing.log,
                                             LogEntry("exception", timing.raised, jsonfile)) ]
             ELSE PostfixLoop(todo, i + 1, mod_dir,
                    [ st EXCEPT !.jsondata = [ @ EXCEPT ![DataOf(folder, jsonfile)] = named.data ],
                                !.nii_img = timing.nii_img,
                                !.log = @ \o fields.log \o timing.log \o named.log ])

\* postfixPHILIPS.bidscoiner_plugin on the folder of an existing session
PostfixPass ==
    /\ pc = "start"
    /\ plugin = "postfixPHILIPS"
    /\ LET st == PostfixLoop(SessionSidecars(folder), 1, SessionDatatype,
                             [ raised |-> FALSE, jsondata |-> jsondata, log |-> log,
                               nii_img |-> Unbound ])
       IN  /\ pc' = IF st.raised THEN "pass raised" ELSE "done"
           /\ jsondata' = st.jsondata
           /\ log' = st.log
    /\ processed' = Append(processed, Ended)
    /\ UNCHANGED << plugin, bids, cropArg, folder, bidsname, jsonfiles, dcm2niixfiles, idx,
                    emitted, renamed, runindex, sources, scans_table, scans_tsv, meta, output,
                    python311 >>

\* the sidecars an existing session may hold
ExistingJsons ==
    { [ EchoTime |-> "1" ],
      PhilipsJson("1", "bold_AP"),
      PhilipsJson("1", "rest"),
      [ SeriesDescription |-> "bold_AP", PhaseEncodingDirection |-> "j-", TaskName |-> "rest",
        SliceTiming |-> "[0.0]" ],
      [ TaskName |-> "nback", EstimatedTotalReadoutTime |-> "5" ] }

\* the image an existing sidecar may come with: none, or one of 66, 69 or 40 slices
ExistingImages ==
    { [ ext |-> "", nrslices |-> 0 ], [ ext |-> ".nii", nrslices |-> 66 ],
      [ ext |-> ".nii.gz", nrslices |-> 69 ], [ ext |-> ".nii.gz", nrslices |-> 40 ] }

\* the files of an output of an existing session
ExistingFiles(stem, im) ==
    { File(stem \o ".json", stem \o ".json") }
    \cup (IF im.ext = "" THEN {} ELSE { File(stem \o im.ext, NiftiData(im.nrslices)) })

\* the names of the outputs of an existing session with functional or with fieldmap
\* images
ExistingStems(b) ==
    << get_bidsname(subid, [ b EXCEPT !.run = "1" ]), get_bidsname(subid, [ b EXCEPT !.run = "2" ]) >>

\* postfixPHILIPS starts on an existing session of one or two outputs
PostfixInit ==
    /\ plugin = "postfixPHILIPS"
    /\ bids \in { BoldRun, [ suffix |-> "phasediff", acq |-> "", run |-> "1" ] }
    /\ python311 \in BOOLEAN
    /\ \E n \in 1..2 : \E json \in [ 1..n -> ExistingJsons ] : \E im \in [ 1..n -> ExistingImages ] :
          /\ folder = UNION { ExistingFiles(ExistingStems(bids)[k], im[k]) : k \in 1..n }
          /\ jsondata = [ d \in { ExistingStems(bids)[k] \o ".json" : k \in 1..n } |->
                            json[CHOOSE k \in 1..n : d = ExistingStems(bids)[k] \o ".json"] ]
    /\ cropArg = FALSE
    /\ pc = "start"
    /\ bidsname = ""
    /\ jsonfiles = <<>>
    /\ dcm2niixfiles = <<>>
    /\ idx = 0
    /\ log = <<>>
    /\ emitted = {}
    /\ renamed = <<>>
    /\ runindex = Unbound
    /\ sources = <<>>
    /\ scans_table = {}
    /\ scans_tsv = <<>>
    /\ processed = <<>>
    /\ meta = EmptyJson
    /\ output = Failure

PostfixSpec == PostfixInit /\ [][PostfixPass]_vars

(***************************************************************************)
(* The composed name and the entity table                                  *)
(***************************************************************************)
\* bidsdatatypes: the entities the table lists for a suffix and the ones it marks
\* required, by their entity keys
EntityTable(suffix) ==
    IF suffix = "T1w"
    THEN [ required |-> { "sub" },
           listed   |-> { "sub", "ses", "vp", "run", "acq", "ce", "rec", "part" } ]
    ELSE IF suffix = "bold"
    THEN [ required |-> { "sub", "task" },
           listed   |-> { "sub", "ses", "task", "acq", "ce", "rec", "dir", "run", "echo",
                          "part" } ]
    ELSE [ required |-> { "sub" },
           listed   |-> { "sub", "ses", "acq", "dir", "run", "part" } ]

\* run descriptors of the suffixes T1w, bold and dwi, each key with or without a value
NameRuns ==
    { [ suffix |-> s, task |-> t, acq |-> a, run |-> r, echo |-> e, part |-> p ] :
        s \in { "T1w", "bold", "dwi" }, t \in { "", "rest" }, a \in { "", "hr" },
        r \in { "", "1", "<<1>>" }, e \in { "", "1" }, p \in { "", "mag" } }

\* the name of one run descriptor is composed in an empty output folder
NameInit ==
    /\ plugin = "custom_pancreas"
    /\ bids \in NameRuns
    /\ cropArg = FALSE
    /\ folder = {}
    /\ pc = "start"
    /\ bidsname = ""
    /\ jsonfiles = <<>>
    /\ dcm2niixfiles = <<>>
    /\ idx = 0
    /\ log = <<>>
    /\ emitted = {}
    /\ renamed = <<>>
    /\ runindex = Unbound
    /\ sources = <<>>
    /\ jsondata = NoJsondata
    /\ scans_table = {}
    /\ scans_tsv = <<>>
    /\ processed = <<>>
    /\ meta = EmptyJson
    /\ output = Failure
    /\ python311 = FALSE

NameSpec == NameInit /\ [][ComposeName]_vars

(***************************************************************************)
(* The fieldmap patch on its own: the substitutions applied to a name and   *)
(* again to what they gave                                                  *)
(***************************************************************************)
\* the postfixes of a fieldmap image: up to two of e1, e2 and ph
ChainPostfixes ==
    { <<>> } \cup { <<a>> : a \in { "e1", "e2", "ph" } }
             \cup { <<a, b>> : a, b \in { "e1", "e2", "ph" } }

\* the postfixes in the order the converter writes them: the echo, then the phase
OrderedPostfixes ==
    { <<>>, <<"ph">> } \cup { <<a>> : a \in { "e1", "e2" } }
                       \cup { <<a, "ph">> : a \in { "e1", "e2" } }

\* the postfixes as they stand in the name of the file
RECURSIVE JoinPostfixes(_, _)
JoinPostfixes(postfixes, i) ==
    IF i > Len(postfixes) THEN ""
    ELSE "_" \o postfixes[i] \o JoinPostfixes(postfixes, i + 1)

\* how often the fieldmap patch is applied to a name
MaxApplications == 2

\* a fieldmap image with its postfixes, among one to four files of the converter
ChainInit ==
    /\ plugin = "philips2bids"
    /\ bids \in { b \in FmapRuns : b.run = "1" }
    /\ cropArg = FALSE
    /\ folder = {}
    /\ pc = "renaming"
    /\ \E postfixes \in ChainPostfixes, nfiles \in 1..4 :
          /\ bidsname = subid \o "_" \o bids.suffix \o JoinPostfixes(postfixes, 1) \o ".nii.gz"
          /\ dcm2niixfiles = [ i \in 1..nfiles |-> subid \o "_" \o bids.suffix ]
          /\ renamed = << [ old |-> "", new |-> bidsname, postfixes |-> postfixes ] >>
    /\ jsonfiles = <<>>
    /\ idx = 0
    /\ log = <<>>
    /\ emitted = {}
    /\ runindex = Unbound
    /\ sources = <<>>
    /\ jsondata = NoJsondata
    /\ scans_table = {}
    /\ scans_tsv = <<>>
    /\ processed = <<>>
    /\ meta = EmptyJson
    /\ output = Failure
    /\ python311 = FALSE

\* the fieldmap patch is applied to the name as it stands
ApplyChain ==
    /\ pc = "renaming"
    /\ idx < MaxApplications
    /\ bidsname' = FieldmapChain(bidsname, Len(dcm2niixfiles), 1)
    /\ renamed' = Append(renamed, [ old |-> bidsname, new |-> bidsname',
                                    postfixes |-> renamed[1].postfixes ])
    /\ idx' = idx + 1
    /\ UNCHANGED << plugin, bids, cropArg, folder, pc, jsonfiles, dcm2niixfiles, log,
                    emitted, runindex, sessionVars >>

ChainSpec == ChainInit /\ [][ApplyChain]_vars

(***************************************************************************)
(* The claims                                                              *)
(***************************************************************************)
\* the files of the folder that hold the data of an image the converter wrote
SiblingFiles == { f \in folder : f.data \in emitted }

\* the files of the folder that hold the data of the image the converter wrote
\* with this postfix
FilesOf(postfix) == { f \in folder : f.data = bidsname \o postfix \o ".nii.gz" }

\* the postfixes of the images the converter wrote
EmittedPostfixes(S) == emitted = { bidsname \o pf \o ".nii.gz" : pf \in S }

\* C1: in philips2bids, when the converter wrote N sibling images, the output
\* folder holds N images of the acquisition after the rename loop: no sibling is
\* lost or overwritten by another sibling (without cropping, where one image
\* replaces another on purpose)
C1_NoSiblingLost ==
    (plugin = "philips2bids" /\ pc = "renamed" /\ ~cropArg)
        => Cardinality(SiblingFiles) = Cardinality(emitted)

\* C2: in custom_pancreas, the target names computed for the sibling files of one
\* acquisition are pairwise distinct
C2_TargetsDistinct ==
    plugin = "custom_pancreas"
        => \A k1, k2 \in 1..Len(renamed) : k1 # k2 => renamed[k1].new # renamed[k2].new

\* a postfix token that is e followed by digits, or just e
EchoToken(t) == t = "e" \/ (StartsWith(t, "e") /\ IsInt(Drop(t, 1)))

\* the echo index such a token stands for
EchoIndexOf(t) == IF t = "e" THEN "1" ELSE IntToStr(ParseInt(Drop(t, 1)))

\* C3: in philips2bids, when the run has an echo key, a sibling whose postfix token
\* is e followed by digits gets the echo entity set to that integer, a token that
\* is just e gives echo-1, and the token is removed from the name
C3_EchoFromToken ==
    (plugin = "philips2bids" /\ "echo" \in DOMAIN bids)
        => \A k1 \in 1..Len(renamed) : \A t \in Range(renamed[k1].postfixes) :
              EchoToken(t)
                 => /\ get_bidsvalue(renamed[k1].new, "echo") = EchoIndexOf(t)
                    /\ ~Contains(renamed[k1].new, "_" \o t \o ".")
                    /\ ~Contains(renamed[k1].new, "_" \o t \o "_")

\* C3 happens: the siblings with the tokens e and e2 of a run with an echo key
\* were renamed, to echo-1 and to echo-2
C3_Witness ==
    /\ plugin = "philips2bids"
    /\ "echo" \in DOMAIN bids
    /\ \E k1, k2 \in 1..Len(renamed) :
          /\ renamed[k1].postfixes = <<"e">>
          /\ get_bidsvalue(renamed[k1].new, "echo") = "1"
          /\ renamed[k2].postfixes = <<"e2">>
          /\ get_bidsvalue(renamed[k2].new, "echo") = "2"

\* C4: in philips2bids, the classification of a postfix never raises, whatever the
\* token and the number of sibling files
C4_NeverRaises ==
    plugin = "philips2bids" => \A k1 \in 1..Len(log) : log[k1].level # "exception"

\* C5: in philips2bids, for a run with suffix fieldmap whose siblings are one image
\* with postfix ph and one without postfix, the ph sibling ends with suffix
\* _magnitude, the other with suffix _fieldmap, and both exist afterwards
C5_FieldmapPair ==
    (/\ plugin = "philips2bids"
     /\ bids.suffix = "fieldmap"
     /\ pc = "renamed"
     /\ EmittedPostfixes({ "", "_ph" }))
        => /\ \E f \in FilesOf("_ph") : EndsWith(f.name, "_magnitude.nii.gz")
           /\ \E f \in FilesOf("") : EndsWith(f.name, "_fieldmap.nii.gz")

\* the siblings of the suffix sfx among the images the converter wrote
WithSuffixSegment(sfx) == { f \in SiblingFiles : EndsWith(f.name, sfx \o ".nii.gz") }

\* the final names carry _magnitude1, _magnitude2 and _phasediff, one each, and
\* the three files exist
MagnitudesAndPhasediff ==
    /\ Cardinality(SiblingFiles) = 3
    /\ \A sfx \in { "_magnitude1", "_magnitude2", "_phasediff" } :
          Cardinality(WithSuffixSegment(sfx)) = 1

\* C6 as claimed: in philips2bids, for a run of any fieldmap suffix whose siblings
\* are two magnitude images (e1, e2) and one image with postfix ph, the final names
\* carry _magnitude1, _magnitude2 and _phasediff, and all three exist
C6_AnyFieldmapSuffix ==
    (/\ plugin = "philips2bids"
     /\ bids.suffix \in FmapSuffixes
     /\ pc = "renamed"
     /\ EmittedPostfixes({ "_e1", "_e2", "_ph" }))
        => MagnitudesAndPhasediff

\* C6 as amended: the same for a run with suffix magnitude1 or magnitude2, the
\* phase image having the postfix ph or e2_ph
C6_MagnitudeRun ==
    (/\ plugin = "philips2bids"
     /\ bids.suffix \in { "magnitude1", "magnitude2" }
     /\ pc = "renamed"
     /\ \E third \in { "_ph", "_e2_ph" } : EmittedPostfixes({ "_e1", "_e2", third }))
        => MagnitudesAndPhasediff

\* C6 happens: the three siblings of a magnitude2 run were renamed
C6_Witness ==
    /\ plugin = "philips2bids"
    /\ bids.suffix = "magnitude2"
    /\ pc = "renamed"
    /\ EmittedPostfixes({ "_e1", "_e2", "_e2_ph" })
    /\ Len(renamed) = 3
    /\ MagnitudesAndPhasediff

\* the converter ran with '-x y' and wrote <name>_Crop_1.nii.gz and <name>.nii.gz
CropCase ==
    /\ cropArg
    /\ { bidsname \o "_Crop_1.nii.gz", bidsname \o ".nii.gz" } \subseteq emitted

\* C7: in both plugins, after the crop step exactly one of <name>_Crop_1.nii.gz and
\* <name>.nii.gz remains, named <name>.nii.gz and holding the cropped data, and no
\* postfix of the acquisition is parsed before the step has finished
C7_CropReplaces ==
    CropCase
        => /\ pc = "cropped"
              => /\ ~IsFile(folder, bidsname \o "_Crop_1.nii.gz")
                 /\ FilesOf("") = {}
                 /\ FilesOf("_Crop_1")
                       = { File(bidsname \o ".nii.gz", bidsname \o "_Crop_1.nii.gz") }
           /\ pc \in { "converted", "cropped" } => (renamed = <<>> /\ dcm2niixfiles = <<>>)

\* C7 happens: custom_pancreas has cropped
C7_Witness ==
    /\ plugin = "custom_pancreas"
    /\ CropCase
    /\ pc = "cropped"
    /\ IsFile(folder, bidsname \o ".nii.gz")

\* C8: in philips2bids, no postfix token is removed silently: each token sets the
\* echo or the part entity or the fieldmap suffix, or its text is in the acq label
\* of the target name
C8_NoTokenDropped ==
    plugin = "philips2bids"
        => \A k1 \in 1..Len(renamed) : \A t \in Range(renamed[k1].postfixes) :
              \/ "echo" \in DOMAIN bids /\ StartsWith(t, "e")
              \/ "part" \in DOMAIN bids /\ t \in { "ph", "real", "imaginary" }
              \/ /\ bids.suffix \in FmapSuffixes
                 /\ FieldmapChain(renamed[k1].old, Len(dcm2niixfiles), 1) # renamed[k1].old
              \/ Contains(get_bidsvalue(renamed[k1].new, "acq"), t)

\* C9: in both plugins, when the rename replaces a file that exists at the target
\* path, a warning that names the path is logged right before the replace
C9_WarnsBeforeReplace ==
    \A k1 \in 1..Len(log) :
        (log[k1].level = "op" /\ log[k1].what = "replace existing")
            => /\ k1 > 1
               /\ log[k1 - 1] = LogEntry("warning", "overwriting existing", log[k1].path)

\* C9 happens: a rename has replaced an existing file, and the loop went on
C9_Witness ==
    /\ pc \in { "rename", "renamed" }
    /\ \E k1 \in 1..Len(log) : log[k1].level = "op" /\ log[k1].what = "replace existing"

\* the run indices for which the folder holds a file of the run item
UsedRunIndices ==
    { r \in 1..(MaxPriorRun + 1) :
        GlobFinds(folder, get_bidsname(subid, [bids EXCEPT !.run = IntToStr(r)]), ".*") }

\* the name was composed for a dynamic run index
ComposedDynamic == pc = "composed" /\ IsDynamic(bids.run) /\ bids.run # EmptyRunIndex

SiblingRenamed == Len(renamed') = Len(renamed) + 1

\* C11: with a dynamic run index, in both plugins, every sibling is renamed to
\* the name the index allocator returns for the output folder as it is just
\* before that rename: the allocator, invoked again on the target, returns it
\* unchanged, since no file of the folder has that name
C11_AllocatedPerSibling ==
    [][ (SiblingRenamed /\ IsDynamic(bids.run))
           => \E r \in { renamed'[Len(renamed')] } :
                 /\ ~IsFile(folder, r.new)
                 /\ increment_runindex(folder, r.new, "") = [hang |-> FALSE, name |-> r.new] ]_vars

\* C12: index allocation ends and returns a name without raising: the plugin never
\* hangs in the echo-index loop or in the run-index allocation, and when it
\* raised, the name of the acquisition had been composed before
C12_AllocationReturns ==
    /\ pc # "hang"
    /\ pc = "raised" => bidsname # ""

\* the acquisition loop was left: by an exception, or at its end
LoopLeft == pc \in { "raised", "written" }

\* the rows the k-th acquisition of the session added to the scans table
RowsOf(k) == processed[k].scans \ (IF k = 1 THEN {} ELSE processed[k - 1].scans)

\* C13: whenever the acquisition loop is left, the scans table is written to disk
\* and holds the rows of every acquisition that succeeded, also when another
\* acquisition failed: no exception leaves the loop
C13_ScansTableWritten ==
    LoopLeft
        => /\ pc # "raised"
           /\ scans_tsv # <<>>
           /\ \A k \in 1..Len(processed) :
                 processed[k].result = "patched" => RowsOf(k) \subseteq scans_tsv[1]

\* the converter was called for the current acquisition and failed
ConverterFailed ==
    ~output.ok /\ pc \notin { "start", "composed", "written", "fmap patched", "done", "pass raised" }

\* the scans table and the json data as they were when the current acquisition began
AtBegin ==
    IF processed = <<>> THEN [ scans |-> {}, jsondata |-> NoJsondata ]
    ELSE [ scans |-> processed[Len(processed)].scans,
           jsondata |-> processed[Len(processed)].jsondata ]

\* the k-th acquisition of the session changed no json data
NoSidecarPatched(k) ==
    processed[k].jsondata = (IF k = 1 THEN NoJsondata ELSE processed[k - 1].jsondata)

\* C14: when the converter call fails, the acquisition is skipped: no file of it is
\* renamed, no sidecar is patched, no row is added to the scans table, and the
\* loop goes on with the next source, or writes the scans table after the last
C14_SkippedOnFailure ==
    /\ ConverterFailed
          => /\ pc = "skipped"
             /\ renamed = <<>>
             /\ dcm2niixfiles = <<>>
             /\ scans_table = AtBegin.scans
             /\ jsondata = AtBegin.jsondata
             /\ IF sources # <<>> THEN ENABLED NextSource ELSE ENABLED WriteScans
    /\ \A k \in 1..Len(processed) :
          processed[k].result = "skipped"
             => /\ processed[k].renamed = <<>>
                /\ RowsOf(k) = {}
                /\ NoSidecarPatched(k)

\* C14 happens: the converter failed for the first source, and the second source
\* was converted, patched and entered in the scans table that was written
C14_Witness ==
    /\ pc = "written"
    /\ Len(processed) = 2
    /\ processed[1].result = "skipped"
    /\ processed[2].result = "patched"
    /\ RowsOf(2) # {}
    /\ RowsOf(2) \subseteq scans_tsv[1]

\* the sibling renamed in this step had no json sidecar next to it
RenamedWithoutSidecar ==
    SiblingRenamed /\ ~IsFile(folder, JsonOf(renamed'[Len(renamed')].old))

\* the rename of a sibling without sidecar: a warning that names the missing
\* sidecar is logged, the image has its target name, the list of json files is as
\* it was, and the loop goes on
WithoutSidecarStep ==
    \E r \in { renamed'[Len(renamed')] } :
       /\ log'[Len(log')] = LogEntry("warning", "not found", JsonOf(r.old))
       /\ IsFile(folder', r.new)
       /\ ~IsFile(folder', r.old)
       /\ jsonfiles' = jsonfiles
       /\ pc' \in { "rename", "renamed" }

\* C15: an image without .json sidecar is renamed with a warning and adds no
\* sidecar to the list of json files, and the plugin goes on without raising: the
\* loop over the json files of the acquisition, which follows, does not raise
C15_MissingSidecarTolerated ==
    [][ /\ RenamedWithoutSidecar => WithoutSidecarStep
        /\ pc = "renamed" => pc' # "raised" ]_vars

\* the image <bidsname>.nii.gz, without postfix
BareImage == bidsname \o ".nii.gz"

\* the converter wrote an image without postfix, and it was not the uncropped image
\* that the crop step replaces on purpose
BareImageWritten == pc \in { "rename", "renamed" } /\ BareImage \in emitted /\ ~cropArg

\* C16: an image named <bidsname><ext>, without postfix, is not selected by the
\* rename step and keeps its name and its content, and after the rename loop has
\* ended the selection of the step finds no file: a second run renames nothing
C16_BareFileUntouched ==
    /\ BareImageWritten
          => /\ BareImage \notin Range(dcm2niixfiles)
             /\ File(BareImage, BareImage) \in folder
    /\ pc = "renamed" => PostfixFiles(folder, bidsname) = <<>>

\* the part label the claim gives for a postfix token
ClaimedPart(t) == IF t = "ph" THEN "phase" ELSE IF t = "real" THEN "real" ELSE "imag"

\* the echo rule, which is tried first, takes the token
EchoRuleTakes(t) == "echo" \in DOMAIN bids /\ StartsWith(t, "e")

\* the entity keys that the rename of a file with these tokens may set apart from
\* part: echo for a token of the echo rule, acq for a token no rule takes, and the
\* run index when it is dynamic
SetByOthers(tokens) ==
    (IF \E t \in tokens : EchoRuleTakes(t) THEN { "echo" } ELSE {})
    \cup (IF \E t \in tokens : ~EchoRuleTakes(t) /\ t \notin { "ph", "real", "imaginary" }
          THEN { "acq" } ELSE {})
    \cup (IF IsDynamic(bids.run) THEN { "run" } ELSE {})

\* C17: in philips2bids, on a run with a part key, a token ph, real or imaginary
\* that the echo rule does not take sets part to phase, real or imag; the token is
\* removed, the suffix and the extension stay, and so does every other entity
C17_PartFromToken ==
    (plugin = "philips2bids" /\ "part" \in DOMAIN bids)
        => \A k1 \in 1..Len(renamed) :
              \E r \in { renamed[k1] } :
                 \A t \in Range(r.postfixes) :
                    (t \in { "ph", "real", "imaginary" } /\ ~EchoRuleTakes(t))
                       => /\ get_bidsvalue(r.new, "part") = ClaimedPart(t)
                          /\ EndsWith(r.new, "_" \o bids.suffix \o Suffixes(r.old))
                          /\ ~Contains(r.new, "_" \o t \o ".")
                          /\ \A key \in (Range(EntityKeys) \ { "part" }) \ SetByOthers(Range(r.postfixes)) :
                                get_bidsvalue(r.new, key) = get_bidsvalue(r.old, key)

\* C17 happens: the siblings with the tokens ph and imaginary of a run with a part
\* key were renamed, to part-phase and to part-imag
C17_Witness ==
    /\ plugin = "philips2bids"
    /\ "part" \in DOMAIN bids
    /\ \E k1, k2 \in 1..Len(renamed) :
          /\ renamed[k1].postfixes = <<"ph">>
          /\ get_bidsvalue(renamed[k1].new, "part") = "phase"
          /\ renamed[k2].postfixes = <<"imaginary">>
          /\ get_bidsvalue(renamed[k2].new, "part") = "imag"

\* the last rename of the postfix loop, in the state it leaves
LastRenamed == renamed[Len(renamed)]

\* the image of the current source that the converter wrote under this name
WrittenAs(fname) ==
    { im \in output.images : bidsname \o im.postfix \o im.ext = fname }

\* C18: right after a sibling image was renamed, it has its extension (.nii or
\* .nii.gz), each file the converter wrote with its stem (.json, .bval, .bvec) is
\* under the new stem with its own extension and its data, and no file with the
\* old stem is left
C18_AssociatedFollow ==
    (pc \in { "rename", "renamed" } /\ renamed # <<>>)
        => \E r \in { LastRenamed } :
              /\ Suffixes(r.new) = Suffixes(r.old)
              /\ Suffixes(r.new) \in { ".nii", ".nii.gz" }
              /\ IsFile(folder, r.new)
              /\ \A im \in WrittenAs(r.old) : \A ext \in SidecarExtensions(im) :
                    File(StemOf(r.new) \o ext,
                         DataId(Len(processed) + 1, StemOf(r.old) \o ext)) \in folder
              /\ \A f \in folder : ~StartsWith(f.name, StemOf(r.old) \o ".")

\* C18 happens: an image .nii with .json, .bval and .bvec was renamed, and so was
\* an image .nii.gz with the gradient tables and without .json
C18_Witness ==
    /\ pc \in { "rename", "renamed" }
    /\ renamed # <<>>
    /\ \E im \in WrittenAs(LastRenamed.old) :
          \/ im.ext = ".nii" /\ im.sidecar /\ im.gradients
          \/ im.ext = ".nii.gz" /\ ~im.sidecar /\ im.gradients

\* whether the name has a key-value segment of the entity key
HasSegment(n, key) == \E i \in 1..Len(Segments(n)) : StartsWith(Segments(n)[i], key \o "-")

\* C19: the composed name has a segment for each entity the table marks required for
\* the suffix of the run and none for an entity the table does not list for it
C19_EntitiesOfSuffix ==
    pc = "composed"
        => \A k \in { EntityKeys[i] : i \in 1..Len(EntityKeys) } :
              /\ k \in EntityTable(bids.suffix).required => HasSegment(bidsname, k)
              /\ k \notin EntityTable(bids.suffix).listed => ~HasSegment(bidsname, k)

\* the keys the sidecar passes are said to add or overwrite, the EffectiveEchoSpacing
\* and TotalReadoutTime fields estimated or not
KnownKeys ==
    { "TaskName", "TracerName", "EchoTime1", "EchoTime2", "IntendedFor",
      "PhaseEncodingDirection", "EffectiveEchoSpacing", "TotalReadoutTime",
      "EstimatedEffectiveEchoSpacing", "EstimatedTotalReadoutTime" }

\* every key of every sidecar that is not among the keys is kept with its value by
\* the step
KeptBut(keys) ==
    \A d \in DOMAIN jsondata : \A k \in DOMAIN jsondata[d] \ keys :
        /\ d \in DOMAIN jsondata'
        /\ k \in DOMAIN jsondata'[d]
        /\ jsondata'[d][k] = jsondata[d][k]

PatchedAlike ==
    { "EffectiveEchoSpacing", "TotalReadoutTime", "EstimatedEffectiveEchoSpacing",
      "EstimatedTotalReadoutTime", "PhaseEncodingDirection" }

\* the keys of the data among the given keys, with their values
Restrict(data, keys) == [ k \in DOMAIN data \cap keys |-> data[k] ]

\* the sidecars as the pass of postfixPHILIPS found them
Found == processed[1].jsondata

\* C21: when the pass of postfixPHILIPS is done, each sidecar has the same ones of
\* the fields EffectiveEchoSpacing, TotalReadoutTime, EstimatedEffectiveEchoSpacing,
\* EstimatedTotalReadoutTime and PhaseEncodingDirection, with the same values, as
\* the pass of philips2bids leaves for the sidecar the pass found
C21_SamePatching ==
    (plugin = "postfixPHILIPS" /\ pc = "done")
        => \A d \in DOMAIN jsondata :
              \E philips \in { PhilipsFields(Found[d], python311) } :
                 philips.raised = ""
                    => Restrict(jsondata[d], PatchedAlike) = Restrict(philips.data, PatchedAlike)

\* the slice counts of the images with the name of the sidecar
SlicesWith(jsonfile) ==
    { NrSlices(f.data) : f \in { g \in folder : g.name \in { WithSuffix(jsonfile, ".nii"),
                                                            WithSuffix(jsonfile, ".nii.gz") } } }

\* C22: the pass of postfixPHILIPS does not raise, and after it every func sidecar
\* has TaskName, the one it had or UNKNOWN, and SliceTiming is added exactly to the
\* sidecars that had none and whose image has 66 or 69 slices
C22_PostfixDone ==
    (plugin = "postfixPHILIPS" /\ pc # "start")
        => /\ pc = "done"
           /\ SessionDatatype = "func"
                 => \A f \in Names(folder) :
                       EndsWith(f, ".json")
                          => \E d \in { DataOf(folder, f) } :
                                /\ "TaskName" \in DOMAIN jsondata[d]
                                /\ jsondata[d]["TaskName"] =
                                      (IF "TaskName" \in DOMAIN Found[d] THEN Found[d]["TaskName"]
                                       ELSE "UNKNOWN")
                                /\ IF "SliceTiming" \in DOMAIN Found[d]
                                   THEN jsondata[d]["SliceTiming"] = Found[d]["SliceTiming"]
                                   ELSE ("SliceTiming" \in DOMAIN jsondata[d])
                                           <=> (SlicesWith(f) \cap { 66, 69 } # {})

\* the converter wrote two echoes with a magnitude and a phase image each for a run
\* of philips2bids with suffix magnitude1
FourSiblings ==
    /\ plugin = "philips2bids"
    /\ bids.suffix = "magnitude1"
    /\ emitted = { bidsname \o pf \o ".nii.gz" : pf \in EchoPhasePairs }

\* the suffix the image with the postfix is to end with
ExpectedSuffix(postfix) ==
    IF postfix = "_e1" THEN "_magnitude1"
    ELSE IF postfix = "_e1_ph" THEN "_phase1"
    ELSE IF postfix = "_e2" THEN "_magnitude2"
    ELSE "_phase2"

\* C23: the four siblings e1, e1_ph, e2 and e2_ph of a magnitude1 run of philips2bids
\* are renamed, at whatever position of the loop, to names that end with
\* _magnitude1, _phase1, _magnitude2 and _phase2, the four names differ, and after
\* the loop each name is the file of the image it was given to
C23_FourSuffixes ==
    FourSiblings
        => /\ pc \notin { "raised", "hang" }
           /\ \A i \in 1..Len(renamed) : \A pf \in EchoPhasePairs :
                 renamed[i].old = bidsname \o pf \o ".nii.gz"
                    => EndsWith(renamed[i].new, ExpectedSuffix(pf) \o ".nii.gz")
           /\ \A i, j \in 1..Len(renamed) : i # j => renamed[i].new # renamed[j].new
           /\ pc = "renamed"
                 => /\ Len(renamed) = 4
                    /\ \A i \in 1..4 : File(renamed[i].new, renamed[i].old) \in folder

\* C23 happens: the four siblings were renamed, with a dynamic run index and files of
\* an earlier run in the folder
C23_Witness ==
    /\ FourSiblings
    /\ pc = "renamed"
    /\ Len(renamed) = 4
    /\ IsDynamic(bids.run)
    /\ \E f \in folder : f.data = "prior"

\* the sidecars of the phase difference images of the session
Phasediffs == { f \in Names(folder) : EndsWith(f, "phasediff.json") }

\* the fieldmap pass of the session is over
AfterFmapPass == pc \in { "fmap patched", "done", "pass raised" } /\ SessionDatatype = "fmap"

\* the n-th magnitude sidecar of a phase difference sidecar
MagnitudeOf(jsonfile, n) == Replace(jsonfile, "_phasediff", "_magnitude" \o IntToStr(n))

\* the echo time of the n-th magnitude sidecar, null without the sidecar
EchoTimeOf(jsonfile, n) ==
    IF IsFile(folder, MagnitudeOf(jsonfile, n))
    THEN jsondata[DataOf(folder, MagnitudeOf(jsonfile, n))]["EchoTime"]
    ELSE Null

\* the pass ended with the exception of the pattern or of the IntendedFor list
EndedBefore ==
    pc = "pass raised" /\ log[Len(log)].what \in { "re.error", "AttributeError" }

\* C24: after the fieldmap pass, unless the pattern or the IntendedFor list ended it,
\* every sidecar of a phase difference image has EchoTime1 and EchoTime2, both null
\* or both set with EchoTime1 <= EchoTime2 and then the echo times of its magnitude1
\* and magnitude2 sidecar; without one of these both are null and an error is logged
C24_EchoTimes ==
    (AfterFmapPass /\ ~EndedBefore)
        => \A f \in Phasediffs : \E data \in { jsondata[DataOf(folder, f)] } :
              /\ { "EchoTime1", "EchoTime2" } \subseteq DOMAIN data
              /\ \/ data["EchoTime1"] = Null /\ data["EchoTime2"] = Null
                 \/ /\ Null \notin { data["EchoTime1"], data["EchoTime2"] }
                    /\ ParseInt(data["EchoTime1"]) <= ParseInt(data["EchoTime2"])
                    /\ data["EchoTime1"] = EchoTimeOf(f, 1)
                    /\ data["EchoTime2"] = EchoTimeOf(f, 2)
              /\ \A n \in 1..2 :
                    ~IsFile(folder, MagnitudeOf(f, n))
                       => /\ data["EchoTime1"] = Null
                          /\ data["EchoTime2"] = Null
                          /\ \E i \in 1..Len(log) : log[i].level = "error" /\ log[i].path = f

\* the pass ended with the exception of the pattern or of a magnitude sidecar
\* without EchoTime
EndedApart ==
    pc = "pass raised" /\ log[Len(log)].what \in { "re.error", "KeyError" }

\* the paths of a json list of strings
ListItems(v) == Split(SubSeq(v, 2, Len(v) - 1), ",")

\* the path, relative to the subject folder, of an image file of the session
IsImagePath(path) ==
    \E g \in Names(folder) : path = "fmap/" \o g /\ Contains(g, ".nii")

\* C25: the fieldmap pass does not raise on an IntendedFor that is a string or a
\* list, and after it, unless the pattern or a magnitude sidecar ended it, the
\* IntendedFor of every fieldmap sidecar that has one is the empty string or a list
\* of paths of image files of the session
C25_IntendedFor ==
    (AfterFmapPass /\ ~EndedApart)
        => /\ pc # "pass raised"
           /\ \A f \in Names(folder) :
                 EndsWith(f, ".json")
                    => \E data \in { jsondata[DataOf(folder, f)] } :
                          "IntendedFor" \in DOMAIN data
                             => \/ data["IntendedFor"] = ""
                                \/ /\ IsJsonList(data["IntendedFor"])
                                   /\ \A i \in 1..Len(ListItems(data["IntendedFor"])) :
                                         IsImagePath(ListItems(data["IntendedFor"])[i])

\* C26: custom_pancreas renames every sibling to the name of the acquisition with the
\* extension of the sibling: only the postfix is removed
C26_OnlyPostfixStripped ==
    plugin = "custom_pancreas"
        => \A i \in 1..Len(renamed) :
              renamed[i].new = bidsname \o Suffixes(renamed[i].old)

\* the sidecars in the folder that the converter wrote for the current acquisition
SidecarsOfAcquisition ==
    { f.name : f \in { g \in folder :
                         g.data \in DOMAIN SidecarData(Len(processed) + 1, bidsname, output.images) } }

\* C27: when the loop over the sidecars of an acquisition starts, every path in
\* jsonfiles is a file, and jsonfiles holds the sidecars of the images of the
\* acquisition, and no other
C27_JsonfilesExist ==
    (pc = "renamed" /\ output.ok)
        => /\ \A i \in 1..Len(jsonfiles) : IsFile(folder, jsonfiles[i])
           /\ Range(jsonfiles) = SidecarsOfAcquisition

\* the folder as it was when the current acquisition began
FolderAtBegin == IF processed = <<>> THEN {} ELSE processed[Len(processed)].folder

\* C28: when the converter call fails, the folder holds the files it held when the
\* acquisition began, with their content, and the scans table written after a
\* session with such an acquisition names files of the folder only
C28_FailureLeavesFolder ==
    /\ pc = "skipped" => (folder = FolderAtBegin /\ jsondata = AtBegin.jsondata)
    /\ (scans_tsv # <<>> /\ \E k \in 1..Len(processed) : processed[k].result = "skipped")
          => \A row \in scans_tsv[1] : IsFile(folder, row)

\* C29: in philips2bids with a dynamic run index, the siblings of an acquisition are
\* renamed to names with one run index, the run index of the name of the acquisition
C29_OneRunIndex ==
    (plugin = "philips2bids" /\ IsDynamic(bids.run) /\ bids.run # EmptyRunIndex)
        => \A i \in 1..Len(renamed) :
              get_bidsvalue(renamed[i].new, "run") = get_bidsvalue(bidsname, "run")

\* C30: the fieldmap patch applied to its own output changes nothing, for every
\* name made of a fieldmap suffix and up to two of the postfixes e1, e2 and ph,
\* and for one to four files
C30_ChainStable ==
    Len(renamed) = 3 => renamed[3].new = renamed[3].old

\* C30, amended: the same, for the postfixes in the order the converter writes
\* them, at most one echo (e1 or e2) and then at most one ph
C30_ChainStableInOrder ==
    (Len(renamed) = 3 /\ renamed[1].postfixes \in OrderedPostfixes)
        => renamed[3].new = renamed[3].old

\* an echo and a phase postfix, both rewritten by the first application, and the
\* patch applied a second time
C30_Witness ==
    /\ Len(renamed) = 3
    /\ renamed[1].postfixes = << "e2", "ph" >>
    /\ bids.suffix = "magnitude1"
    /\ Len(dcm2niixfiles) = 4
    /\ renamed[2].new = subid \o "_phase2.nii.gz"
    /\ renamed[3].new = renamed[2].new
====
